---------------------------- MODULE Spec2Model ----------------------------
(***************************************************************************)
(* Orchestration and cross-engine forum pipeline of BettaFish:             *)
(*   - src/app.py               system start single-flight                 *)
(*   - src/ForumEngine/monitor.py  log tailer, session gate, moderator      *)
(*   - src/ReportEngine/agent.py   file-count readiness gate                *)
(*                                                                         *)
(* Text is modelled as a sequence of tokens.  A token is a word of the     *)
(* text or one of the characters the code treats specially.                *)
(***************************************************************************)
EXTENDS Integers, Sequences, FiniteSets, TLC

(***************************************************************************)
(* Bounds of the exploration                                               *)
(***************************************************************************)
MaxAppend == 3          \* engine-log lines written in one run of the session gate
MaxFilterAppend == 4    \* engine-log lines written in one run of the line filter
MaxDeepAppend == 13     \* engine-log lines written in one run of the moderator
MaxRestartAppend == 12  \* engine-log lines written in one run with a restart
MaxOverlapAppend == 8   \* engine-log lines written in one run with two loop threads
MaxGuidanceAppend == 8  \* engine-log lines written by two research runs in a row
MaxStops == 1           \* stop_monitoring calls in one run
MaxUnread == 3          \* lines an engine may be ahead of the tailer
MaxTruncate == 1        \* truncations of engine logs in one run
MaxIdleTracked == 1     \* idle polls counted one by one before fast-forward
MaxFiles == 5           \* report files in one engine directory
MaxBaseline == 3        \* report files in a directory when a baseline is taken
MaxTasks == 2           \* ReportTask objects created in one run
MaxParagraphs == 2      \* paragraphs the report structure of a run holds
MaxClock == 1           \* seconds the clock advances in one run
MaxStarts == 2          \* SystemStart requests in one run
MaxTemplates == 2       \* template files in the template directory
MaxName == 2            \* words of a template name in an LLM answer
MaxLockOps == 3          \* writes and truncations of forum.log in one run
MaxContent == 2         \* characters of a published message
MaxPublished == 2       \* messages published in one run

(***************************************************************************)
(* Tokens                                                                  *)
(***************************************************************************)
NL == "NL"              \* the character \n
CR == "CR"              \* the character \r
SP == " "               \* a blank
BS == "BS"              \* the character \
TS == "HH:MM:SS"        \* datetime.now().strftime('%H:%M:%S')
WhiteSpace == {NL, CR, SP}
AppTags == {"[INSIGHT]", "[MEDIA]", "[QUERY]"}
OtherTags == {"[node]"}

Apps == <<"insight", "media", "query">>
AppSet == {"insight", "media", "query"}
Upper(a) == CASE a = "insight" -> "INSIGHT"
              [] a = "media" -> "MEDIA"
              [] a = "query" -> "QUERY"
Sources == {"SYSTEM", "HOST", "QUERY", "MEDIA", "INSIGHT"}

(***************************************************************************)
(* Engine log lines.  A line is [level, logger, body]: level "NONE" is a   *)
(* line without the loguru prefix, logger "summary" a logger path that     *)
(* contains nodes.summary_node.  The bodies are the texts below; what the  *)
(* tailer's string tests see of a body is listed in BodyInfo.              *)
(*   marker    Generating first paragraph summary                          *)
(*   single    Cleaned output: {"paragraph_latest_state": "ok"}            *)
(*   single_x  Cleaned output: {"paragraph_latest_state": "x"}             *)
(*   single_nl Cleaned output: {"updated_paragraph_latest_state":          *)
(*             "alpha\nbeta"}                                              *)
(*   open      Cleaned output: {                                           *)
(*   kv_short  "paragraph_latest_state": "x"                               *)
(*   kv_long   "updated_paragraph_latest_state": "alpha\nbeta"             *)
(*   close     }                                                           *)
(*   single_nested  Cleaned output: {"paragraph_latest_state": "x",        *)
(*             "meta": {"k": 1}}                                           *)
(*   open_nested    Cleaned output: {"paragraph_latest_state": "x",        *)
(*             "meta": {"k": 1}                                            *)
(*   failed    JSON parsing failed: Expecting value                        *)
(*   starting  Starting insight application...                             *)
(*   notice    Unable to import forum_reader module, will skip HOST speech *)
(*             reading functionality                                       *)
(***************************************************************************)
BodyInfo(b) ==
  CASE b = "marker" ->
         [pattern |-> TRUE, first |-> TRUE, errkw |-> FALSE, cleaned |-> FALSE,
          jstart |-> FALSE, excl |-> TRUE, len |-> 34, endbrace |-> FALSE,
          json |-> <<"txt">>, text |-> <<"Generating first paragraph summary">>]
    [] b = "single" ->
         [pattern |-> FALSE, first |-> FALSE, errkw |-> FALSE, cleaned |-> TRUE,
          jstart |-> TRUE, excl |-> FALSE, len |-> 48, endbrace |-> TRUE,
          json |-> <<"{", "kvS2", "}">>, text |-> <<"{\"paragraph_latest_state\": \"ok\"}">>]
    [] b = "single_x" ->
         [pattern |-> FALSE, first |-> FALSE, errkw |-> FALSE, cleaned |-> TRUE,
          jstart |-> TRUE, excl |-> FALSE, len |-> 47, endbrace |-> TRUE,
          json |-> <<"{", "kvS1", "}">>, text |-> <<"{\"paragraph_latest_state\": \"x\"}">>]
    [] b = "single_nl" ->
         [pattern |-> FALSE, first |-> FALSE, errkw |-> FALSE, cleaned |-> TRUE,
          jstart |-> TRUE, excl |-> FALSE, len |-> 65, endbrace |-> TRUE,
          json |-> <<"{", "kvL", "}">>,
          text |-> <<"{\"updated_paragraph_latest_state\": \"alpha", BS, "nbeta\"}">>]
    [] b = "open" ->
         [pattern |-> FALSE, first |-> FALSE, errkw |-> FALSE, cleaned |-> TRUE,
          jstart |-> TRUE, excl |-> FALSE, len |-> 17, endbrace |-> FALSE,
          json |-> <<"{">>, text |-> <<"{">>]
    [] b = "kv_short" ->
         [pattern |-> FALSE, first |-> FALSE, errkw |-> FALSE, cleaned |-> FALSE,
          jstart |-> FALSE, excl |-> FALSE, len |-> 29, endbrace |-> FALSE,
          json |-> <<"kvS1">>, text |-> <<"\"paragraph_latest_state\": \"x\"">>]
    [] b = "kv_long" ->
         [pattern |-> FALSE, first |-> FALSE, errkw |-> FALSE, cleaned |-> FALSE,
          jstart |-> FALSE, excl |-> FALSE, len |-> 47, endbrace |-> FALSE,
          json |-> <<"kvL">>,
          text |-> <<"\"updated_paragraph_latest_state\": \"alpha", BS, "nbeta\"">>]
    [] b = "close" ->
         [pattern |-> FALSE, first |-> FALSE, errkw |-> FALSE, cleaned |-> FALSE,
          jstart |-> FALSE, excl |-> FALSE, len |-> 1, endbrace |-> TRUE,
          json |-> <<"}">>, text |-> <<"}">>]
    [] b = "single_nested" ->
         [pattern |-> FALSE, first |-> FALSE, errkw |-> FALSE, cleaned |-> TRUE,
          jstart |-> TRUE, excl |-> FALSE, len |-> 66, endbrace |-> TRUE,
          json |-> <<"{", "kvS1", "meta:", "{", "k1", "}", "}">>,
          text |-> <<"{\"paragraph_latest_state\": \"x\", \"meta\": {\"k\": 1}}">>]
    [] b = "open_nested" ->
         [pattern |-> FALSE, first |-> FALSE, errkw |-> FALSE, cleaned |-> TRUE,
          jstart |-> TRUE, excl |-> FALSE, len |-> 65, endbrace |-> TRUE,
          json |-> <<"{", "kvS1", "meta:", "{", "k1", "}">>,
          text |-> <<"{\"paragraph_latest_state\": \"x\", \"meta\": {\"k\": 1}">>]
    [] b = "failed" ->
         [pattern |-> FALSE, first |-> FALSE, errkw |-> TRUE, cleaned |-> FALSE,
          jstart |-> FALSE, excl |-> TRUE, len |-> 36, endbrace |-> FALSE,
          json |-> <<"txt">>, text |-> <<"JSON parsing failed: Expecting value">>]
    [] b = "starting" ->
         [pattern |-> FALSE, first |-> FALSE, errkw |-> FALSE, cleaned |-> FALSE,
          jstart |-> FALSE, excl |-> FALSE, len |-> 31, endbrace |-> FALSE,
          json |-> <<"txt">>, text |-> <<"Starting insight application...">>]
    [] b = "notice" ->
         [pattern |-> FALSE, first |-> FALSE, errkw |-> FALSE, cleaned |-> FALSE,
          jstart |-> FALSE, excl |-> FALSE, len |-> 81, endbrace |-> FALSE,
          json |-> <<"txt">>, text |-> <<"Unable to import forum_reader module">>]

Line(level, logger, body) == [level |-> level, logger |-> logger, body |-> body]
HasPrefix(line) == line.level # "NONE"

\* A prefixed line takes two units of the file (prefix, body), a bare line one.
UnitsOf(line) == IF HasPrefix(line) THEN 2 ELSE 1
\* What a read that starts between the prefix and the body of a line sees.
BodyOnly(line) == Line("NONE", "none", line.body)

(***************************************************************************)
(* LogMonitor: the string tests                                            *)
(***************************************************************************)
get_log_level(line) == line.level

VALUABLE_MIN_LEN == 30

\* a target test without the exclusion of ERROR lines
is_target_log_line_AnyLevel(line) ==
  /\ ~BodyInfo(line.body).errkw
  /\ \/ line.logger = "summary"
     \/ BodyInfo(line.body).pattern

is_target_log_line(line) ==
  /\ get_log_level(line) # "ERROR"
  /\ ~BodyInfo(line.body).errkw
  /\ \/ line.logger = "summary"
     \/ BodyInfo(line.body).pattern

\* 'FirstSummaryNode' in line or 'Generating first paragraph summary' in line
is_first_summary_line(line) == BodyInfo(line.body).first

is_valuable_content(line) ==
  IF BodyInfo(line.body).cleaned THEN TRUE
  ELSE IF BodyInfo(line.body).excl THEN FALSE
  ELSE BodyInfo(line.body).len >= VALUABLE_MIN_LEN

is_json_start_line(line) == BodyInfo(line.body).jstart

\* the cleaned line of monitor.py 511-519 is exactly "}" (or "] }")
is_end_marker(line) == line.body = "close"

(***************************************************************************)
(* LogMonitor: JSON extraction.  The JSON text is the token sequence of    *)
(* the parts of the buffered lines; json.loads accepts an object with at   *)
(* most one member, or with a member followed by the member "meta" whose   *)
(* value is an object, and fix_json_string repairs none of the other texts *)
(* that these bodies can build.                                            *)
(***************************************************************************)
RECURSIVE JoinJson(_)
JoinJson(lines) ==
  IF lines = <<>> THEN <<>>
  ELSE BodyInfo(Head(lines).body).json \o JoinJson(Tail(lines))

JsonMembers == {"kvS1", "kvS2", "kvL"}

json_loads(text) ==
  IF text = <<"{", "}">> THEN [ok |-> TRUE, member |-> "none"]
  ELSE IF Len(text) = 3 /\ text[1] = "{" /\ text[3] = "}" /\ text[2] \in JsonMembers
       THEN [ok |-> TRUE, member |-> text[2]]
  ELSE IF /\ Len(text) = 7 /\ text[1] = "{" /\ text[2] \in JsonMembers
          /\ SubSeq(text, 3, 7) = <<"meta:", "{", "k1", "}", "}">>
       THEN [ok |-> TRUE, member |-> text[2]]
  ELSE [ok |-> FALSE, member |-> "none"]

format_json_content(obj) ==
  CASE obj.member = "kvL"  -> <<"alpha", NL, "beta">>
    [] obj.member = "kvS2" -> <<"ok">>
    [] obj.member = "kvS1" -> <<"x">>
    [] OTHER -> <<"Cleaned output: {}">>

RECURSIVE CountTok(_, _)
CountTok(text, tok) ==
  IF text = <<>> THEN 0
  ELSE (IF Head(text) = tok THEN 1 ELSE 0) + CountTok(Tail(text), tok)

\* <<>> stands for None
extract_json_content(json_lines) ==
  IF \A i \in 1..Len(json_lines) : ~is_json_start_line(json_lines[i]) THEN <<>>
  ELSE LET json_start_idx == CHOOSE i \in 1..Len(json_lines) :
                               /\ is_json_start_line(json_lines[i])
                               /\ \A j \in 1..(i - 1) : ~is_json_start_line(json_lines[j])
           json_part == BodyInfo(json_lines[json_start_idx].body).json
           json_text == IF /\ json_part[Len(json_part)] = "}"
                           /\ CountTok(json_part, "{") = CountTok(json_part, "}")
                        THEN json_part
                        ELSE json_part
                             \o JoinJson(SubSeq(json_lines, json_start_idx + 1, Len(json_lines)))
           parsed == json_loads(json_text)
       IN IF parsed.ok THEN format_json_content(parsed) ELSE <<>>

(***************************************************************************)
(* LogMonitor: content cleaning                                            *)
(***************************************************************************)
RECURSIVE DropApps(_)
DropApps(s) ==
  IF s = <<>> THEN <<>>
  ELSE IF Head(s) \in AppTags THEN DropApps(Tail(s))
  ELSE <<Head(s)>> \o DropApps(Tail(s))

RECURSIVE LStrip(_)
LStrip(s) ==
  IF s # <<>> /\ Head(s) \in WhiteSpace THEN LStrip(Tail(s)) ELSE s

RECURSIVE RStrip(_)
RStrip(s) ==
  IF s # <<>> /\ s[Len(s)] \in WhiteSpace THEN RStrip(SubSeq(s, 1, Len(s) - 1)) ELSE s

Strip(s) == RStrip(LStrip(s))

\* re.sub(r'\s+', ' ', content)
RECURSIVE CollapseWs(_)
CollapseWs(s) ==
  IF s = <<>> THEN <<>>
  ELSE IF Head(s) \in WhiteSpace
       THEN <<SP>> \o CollapseWs(LStrip(s))
       ELSE <<Head(s)>> \o CollapseWs(Tail(s))

DropLeadingTag(s) ==
  IF s # <<>> /\ Head(s) \in (AppTags \cup OtherTags) THEN LStrip(Tail(s)) ELSE s

_clean_content_tags(content) ==
  IF content = <<>> THEN content
  ELSE Strip(CollapseWs(DropLeadingTag(DropApps(content))))

extract_node_content(line) ==
  Strip(CollapseWs(DropLeadingTag(BodyInfo(line.body).text)))


(***************************************************************************)
(* LogMonitor.process_lines_for_json.  st is the capture state of one      *)
(* engine: [cap |-> capturing_json, buf |-> json_buffer,                   *)
(* err |-> in_error_block].  The result carries the captured contents and, *)
(* for every line, how many contents it produced.                          *)
(***************************************************************************)
NoCapture == [cap |-> FALSE, buf |-> <<>>, err |-> FALSE]

Captured(content) == IF content # <<>> THEN <<_clean_content_tags(content)>> ELSE <<>>

\* a capture that is closed with its lines left in the buffer
StopCapture_KeepBuffer(st) == IF st.cap THEN [st EXCEPT !.cap = FALSE] ELSE st

StopCapture(st) == IF st.cap THEN [st EXCEPT !.cap = FALSE, !.buf = <<>>] ELSE st

\* an ERROR block that a WARNING line ends as well
ErrorBlockAfter_WarningEnds(err, level) ==
  IF level = "ERROR" THEN TRUE
  ELSE IF level \in {"INFO", "WARNING"} THEN FALSE
  ELSE err

\* monitor.py 452-466: the level of the line moves the ERROR block flag
ErrorBlockAfter(err, level) ==
  IF level = "ERROR" THEN TRUE
  ELSE IF level = "INFO" THEN FALSE
  ELSE err

\* one pass of the loop body, monitor.py 448-529
ProcessLine(st, line) ==
  LET level == get_log_level(line)
      err == ErrorBlockAfter(st.err, level)
  IN IF level = "ERROR" \/ err
     THEN [st |-> [StopCapture(st) EXCEPT !.err = err], out |-> <<>>]
     ELSE IF is_target_log_line(line) /\ is_json_start_line(line)
          THEN IF BodyInfo(line.body).endbrace
               THEN [st |-> [cap |-> FALSE, buf |-> <<>>, err |-> err],
                     out |-> Captured(extract_json_content(<<line>>))]
               ELSE [st |-> [cap |-> TRUE, buf |-> <<line>>, err |-> err], out |-> <<>>]
     ELSE IF is_target_log_line(line) /\ is_valuable_content(line)
          THEN [st |-> [st EXCEPT !.err = err],
                out |-> <<_clean_content_tags(extract_node_content(line))>>]
     ELSE IF st.cap
          THEN IF is_end_marker(line)
               THEN [st |-> [cap |-> FALSE, buf |-> <<>>, err |-> err],
                     out |-> Captured(extract_json_content(Append(st.buf, line)))]
               ELSE [st |-> [st EXCEPT !.buf = Append(st.buf, line), !.err = err],
                     out |-> <<>>]
     ELSE [st |-> [st EXCEPT !.err = err], out |-> <<>>]

RECURSIVE process_lines_for_json(_, _)
process_lines_for_json(lines, st) ==
  IF lines = <<>> THEN [st |-> st, outs |-> <<>>, yields |-> <<>>]
  ELSE LET one == ProcessLine(st, Head(lines))
           more == process_lines_for_json(Tail(lines), one.st)
       IN [st |-> more.st,
           outs |-> one.out \o more.outs,
           yields |-> <<Len(one.out)>> \o more.yields]

(***************************************************************************)
(* Engine log files.  A file is the number of units and of lines of the    *)
(* prefix the tailer has read past, and the lines after that prefix.  The  *)
(* tailer never seeks back into that prefix: its offset only moves to the  *)
(* end of the file, or to 0 once the file has been replaced.               *)
(***************************************************************************)
EmptyFile == [skipUnits |-> 0, skipLines |-> 0, rest |-> <<>>]

RECURSIVE Units(_)
Units(lines) == IF lines = <<>> THEN 0 ELSE UnitsOf(Head(lines)) + Units(Tail(lines))

get_file_size(f) == f.skipUnits + Units(f.rest)
get_file_line_count(f) == f.skipLines + Len(f.rest)

\* the lines of a text that starts k units into lines
RECURSIVE SkipUnits(_, _)
SkipUnits(lines, k) ==
  IF k <= 0 \/ lines = <<>> THEN lines
  ELSE IF UnitsOf(Head(lines)) <= k THEN SkipUnits(Tail(lines), k - UnitsOf(Head(lines)))
  ELSE <<BodyOnly(Head(lines))>> \o Tail(lines)

\* f.seek(pos); f.read().split('\n'), blank lines dropped
ReadFrom(f, pos) == SkipUnits(f.rest, pos - f.skipUnits)

\* the file as the tailer will ever see it again once its offset is pos
Trim(f, pos) ==
  IF pos < f.skipUnits \/ pos > get_file_size(f) THEN f
  ELSE LET rest == ReadFrom(f, pos)
       IN [skipUnits |-> pos,
           skipLines |-> get_file_line_count(f) - Len(rest),
           rest |-> rest]

\* monitor.py 397-431
read_new_lines(f, position, st) ==
  LET current_size == get_file_size(f)
      shrunk == current_size < position
      last_position == IF shrunk THEN 0 ELSE position
  IN [lines |-> IF current_size > last_position THEN ReadFrom(f, last_position) ELSE <<>>,
      position |-> IF current_size > last_position THEN current_size ELSE position,
      st |-> IF shrunk THEN NoCapture ELSE st]

(***************************************************************************)
(* forum.log is its text: a sequence of tokens with NL between the lines.   *)
(***************************************************************************)
START_MARK == "=== ForumEngine monitoring started - DATETIME ==="
END_MARK == "=== ForumEngine forum ended - DATETIME ==="
INIT_MARK == "=== ForumEngine System Initialization - DATETIME ==="

\* content.replace('\n', '\\n').replace('\r', '\\r')
RECURSIVE OneLine(_)
OneLine(content) ==
  IF content = <<>> THEN <<>>
  ELSE (CASE Head(content) = NL -> <<BS, "n">>
          [] Head(content) = CR -> <<BS, "r">>
          [] OTHER -> <<Head(content)>>) \o OneLine(Tail(content))

\* f"[{timestamp}] [{source}] {content}"
LogLine(source, content) == <<"[", TS, "]", SP, "[", source, "]", SP>> \o content

\* monitor.py 108-123: what one call appends to the file
write_to_forum_log(content, source) ==
  IF source # ""
  THEN LogLine(source, OneLine(content)) \o <<NL>>
  ELSE <<"[", TS, "]", SP>> \o OneLine(content) \o <<NL>>

\* app.py 297-316: the file after init_forum_log
init_forum_log == <<INIT_MARK, NL>>

HostSpeeches == {<<"timeline", NL, "questions">>}

HOST_SPEECH_THRESHOLD == 5
HOST_BATCH == 5
INACTIVE_LIMIT == 7200

(***************************************************************************)
(* State                                                                   *)
(***************************************************************************)
Threads == {"t1", "t2"}
Clients == {"c1", "c2", "c3"}

VARIABLES
  \* engine logs and their writers; truncated[a]: the log of a, of which the
  \* tailer had counted lines, was replaced during the session and the tailer
  \* has not examined it since
  engine_log, appended, truncs, truncated,
  \* LogMonitor
  is_monitoring, file_positions, file_line_counts, is_searching,
  search_inactive_count, agent_speeches_buffer, is_host_generating, capture,
  \* forum.log
  forum_log, forum_exists,
  \* the monitor_logs threads: position and locals
  pc, idx, pending, current_lines, any_growth, any_shrink, captured_any,
  \* a stop_monitoring call between its join and its end marker, and the
  \* number of such calls
  stopping, stops,
  \* history: the last batch handed to process_lines_for_json, the messages
  \* captured in the session, the inputs of the moderator calls of the
  \* session, whether one of them failed,
  \* and forum.log as the last session start found it
  last_batch, session_msgs, invocations, synth_failed, prev_forum,
  \* app.py system start
  system_state, processes, forum_status, req_pc, req_ok, req_result, starts,
  \* history: the request that started the worker an engine has
  started_by,
  \* ReportEngine readiness gate
  md_count, dir_exists, baseline_data, check_result,
  \* ReportEngine compositor (flask_interface.py): the module globals, the
  \* ReportTask objects, their worker threads, the requests and their replies,
  \* the report files written, the clock in seconds
  report_agent, current_task, task, created, worker_pc, gen_pc, gen_reply, report_files, clock,
  \* history: the tasks cancelled while running, and the task that failed
  \* as the current task, with no GenerateReport or cancel request since
  cancelled, failed_task,
  \* one research run (QueryEngine/agent.py): the position of research(), the
  \* paragraphs of the state, the loop variables, why the run was given up
  research_pc, paragraphs, paragraph_index, reflection_i, research_error,
  \* one call of a function wrapped by with_retry or with_graceful_retry
  \* (utils/retry_helper.py): the wrapper's locals, and as history the outcome
  \* of every call of the function and the delays slept
  retry,
  \* app.py StartEngine requests (start_app): position, engine and reply of
  \* each request; the live children of an engine that its handle no longer
  \* names; history: the engines whose log was deleted while a child of it
  \* was alive; the reply of the last search request
  engine_req, orphans, unlinked, search_reply,
  \* history: the messages handed to write_to_forum_log, in order
  published,
  \* ReportEngine: the inputs and the result of the last template selection
  template,
  \* QueryEngine and InsightEngine: the node output of the last search step,
  \* the tool it executed with its parameters, and whether it raised
  search_step,
  \* the write lock of the monitor: its holder, the position of each writer of
  \* forum.log, and history: the mutations of the file made by a writer that
  \* did not hold the lock, and whether one was made while another writer
  \* held it
  forum_lock

envVars == <<engine_log, appended, truncs, truncated>>
monitorVars == <<is_monitoring, file_positions, file_line_counts, is_searching,
                 search_inactive_count, agent_speeches_buffer, is_host_generating, capture>>
forumVars == <<forum_log, forum_exists>>
threadVars == <<pc, idx, pending, current_lines, any_growth, any_shrink, captured_any>>
histVars == <<last_batch, session_msgs, invocations, synth_failed, prev_forum>>
stopVars == <<stopping, stops>>
tailerVars == <<envVars, monitorVars, threadVars, stopVars, histVars>>
startVars == <<system_state, processes, forum_status, req_pc, req_ok, req_result, starts,
              started_by>>
gateVars == <<md_count, dir_exists, baseline_data, check_result>>
taskVars == <<report_agent, current_task, task, created, worker_pc, gen_pc, gen_reply, report_files, clock, cancelled, failed_task>>
engineVars == <<engine_req, orphans, unlinked, search_reply>>
researchVars == <<research_pc, paragraphs, paragraph_index, reflection_i, research_error>>
utilVars == <<retry, engineVars, published, template, search_step, forum_lock>>
otherVars == <<taskVars, researchVars, utilVars>>
vars == <<tailerVars, forumVars, startVars, gateVars, otherVars>>

NoBatch == [app |-> "none", searching |-> FALSE, lines |-> <<>>, yields |-> <<>>,
            outs |-> <<>>, entry |-> NoCapture, exit |-> NoCapture]
\* flask_interface.py 39-55: a ReportTask as constructed; html_content and
\* report_file_path name the task object whose worker produced them (0: empty)
ReportTask(id) ==
  [task_id |-> id, status |-> "pending", progress |-> 0, error_message |-> "",
   html_content |-> 0, report_file_path |-> 0]
TaskObjs == 1..MaxTasks
\* the callers of GenerateReport (182-252)
Callers == {"g1", "g2"}
TaskIds == 0..MaxClock
NoReply == [code |-> 0, task_id |-> 0, status |-> "none", error_message |-> "", html |-> 0]
NoCheck == [valid |-> FALSE, ready |-> FALSE, new_files_found |-> [a \in AppSet |-> 0]]

\* retry_helper.py 39-50: the default of retry_on_exceptions names Exception
DefaultRetryOn == {"RequestException", "ConnectionError", "TimeoutError", "Exception"}

\* retry_helper.py 55 with 16-21
DEFAULT_RETRY_CONFIG ==
  [max_retries |-> 3, initial_delay |-> 1, backoff_factor |-> <<2, 1>>, max_delay |-> 60,
   retry_on_exceptions |-> DefaultRetryOn]

\* the callers of StartEngine (app.py 752-783)
Starters == {"s1", "s2"}
NoEngineReq == [pc |-> "idle", app |-> "none", success |-> FALSE, message |-> "none"]
NoSearch == [success |-> FALSE, message |-> "none", posted |-> {}, results |-> {}]
\* no template has been selected
NoTemplate == [done |-> FALSE]
\* no search step has run
NoSearchStep == [engine |-> "none"]
\* the threads that write forum.log: a monitor loop and the thread of a
\* request that stops the monitor, or two monitor loops (monitor.py 556, 638,
\* 650, 690, 755)
Writers == {"w1", "w2"}
\* the locals of the retry wrapper before a call
NoRetry ==
  [pc |-> "idle", func |-> "none", variant |-> "none", config |-> DEFAULT_RETRY_CONFIG,
   attempt |-> 0, last_exception |-> "none", outcomes |-> <<>>, completions |-> <<>>,
   delays |-> <<>>, result |-> [kind |-> "none", value |-> "none"]]

Init ==
  /\ engine_log = [a \in AppSet |-> EmptyFile]
  /\ appended = 0
  /\ truncs = 0
  /\ truncated = [a \in AppSet |-> FALSE]
  /\ is_monitoring = FALSE
  /\ file_positions = [a \in AppSet |-> 0]
  /\ file_line_counts = [a \in AppSet |-> 0]
  /\ is_searching = FALSE
  /\ search_inactive_count = 0
  /\ agent_speeches_buffer = <<>>
  /\ is_host_generating = FALSE
  /\ capture = [a \in AppSet |-> NoCapture]
  /\ forum_log = init_forum_log
  /\ forum_exists = TRUE
  /\ pc = [t \in Threads |-> "dead"]
  /\ idx = [t \in Threads |-> 1]
  /\ pending = [t \in Threads |-> <<>>]
  /\ current_lines = [t \in Threads |-> 0]
  /\ any_growth = [t \in Threads |-> FALSE]
  /\ any_shrink = [t \in Threads |-> FALSE]
  /\ captured_any = [t \in Threads |-> FALSE]
  /\ stopping = FALSE
  /\ stops = 0
  /\ last_batch = NoBatch
  /\ session_msgs = <<>>
  /\ invocations = <<>>
  /\ synth_failed = FALSE
  /\ prev_forum = <<>>
  /\ system_state = [started |-> FALSE, starting |-> FALSE]
  /\ processes = [a \in AppSet |-> [process |-> "none", status |-> "stopped"]]
  /\ started_by = [a \in AppSet |-> "none"]
  /\ forum_status = "stopped"
  /\ req_pc = [c \in Clients |-> "idle"]
  /\ req_ok = [c \in Clients |-> FALSE]
  /\ req_result = [c \in Clients |-> "none"]
  /\ starts = 0
  /\ md_count = [a \in AppSet |-> 0]
  /\ dir_exists = [a \in AppSet |-> TRUE]
  /\ baseline_data = [a \in AppSet |-> 0]
  /\ check_result = NoCheck
  /\ report_agent = FALSE
  /\ current_task = 0
  /\ task = [o \in TaskObjs |-> ReportTask(0)]
  /\ created = 0
  /\ worker_pc = [o \in TaskObjs |-> "none"]
  /\ gen_pc = [c \in Callers |-> "idle"]
  /\ gen_reply = [c \in Callers |-> "none"]
  /\ report_files = {}
  /\ clock = 0
  /\ cancelled = {}
  /\ failed_task = 0
  /\ research_pc = "structure"
  /\ paragraphs = <<>>
  /\ paragraph_index = 0
  /\ reflection_i = 0
  /\ research_error = "none"
  /\ retry = NoRetry
  /\ engine_req = [r \in Starters |-> NoEngineReq]
  /\ orphans = [a \in AppSet |-> 0]
  /\ unlinked = {}
  /\ search_reply = NoSearch
  /\ published = <<>>
  /\ template = NoTemplate
  /\ search_step = NoSearchStep
  /\ forum_lock = [holder |-> "none", pc |-> [w \in Writers |-> "idle"], ops |-> 0,
                   unlocked |-> {}, interleaved |-> FALSE]

(***************************************************************************)
(* The engines: a worker appends a line to its log; a log is replaced by   *)
(* an empty file (app.py 572-575 unlinks it on every engine start).        *)
(***************************************************************************)
EngineAppend(a, line, max) ==
  /\ appended < max
  /\ Len(engine_log[a].rest) < MaxUnread
  /\ engine_log' = [engine_log EXCEPT ![a].rest = Append(@, line)]
  /\ appended' = appended + 1
  /\ UNCHANGED <<truncs, truncated, monitorVars, forumVars, threadVars, stopVars, histVars,
                 startVars, gateVars, otherVars>>

EngineTruncate(a) ==
  /\ truncs < MaxTruncate
  /\ get_file_line_count(engine_log[a]) > 0
  /\ engine_log' = [engine_log EXCEPT ![a] = EmptyFile]
  /\ truncs' = truncs + 1
  /\ truncated' = [truncated EXCEPT ![a] = is_searching /\ file_line_counts[a] > 0]
  /\ UNCHANGED <<appended, monitorVars, forumVars, threadVars, stopVars, histVars,
                 startVars, gateVars, otherVars>>

(***************************************************************************)
(* LogMonitor.start_monitoring / stop_monitoring (monitor.py 720-760)      *)
(***************************************************************************)
Alive(t) == pc[t] # "dead"
FreeThread == IF ~Alive("t1") THEN "t1" ELSE "t2"

\* joined: the call is made only once the previous loop thread has ended
start_monitoring(joined) ==
  /\ ~is_monitoring
  /\ IF joined THEN \A t \in Threads : ~Alive(t) ELSE \E t \in Threads : ~Alive(t)
  /\ is_monitoring' = TRUE
  /\ pc' = [pc EXCEPT ![FreeThread] = "init"]
  /\ UNCHANGED <<envVars, file_positions, file_line_counts, is_searching,
                 search_inactive_count, agent_speeches_buffer, is_host_generating,
                 capture, forumVars, idx, pending, current_lines, any_growth,
                 any_shrink, captured_any, stopVars, histVars, startVars, gateVars, otherVars>>

\* monitor.py 743-751: clear the flag and join the thread for at most 2 s
stop_monitoring_begin ==
  /\ is_monitoring
  /\ ~stopping
  /\ stops < MaxStops
  /\ is_monitoring' = FALSE
  /\ stopping' = TRUE
  /\ stops' = stops + 1
  /\ UNCHANGED <<envVars, file_positions, file_line_counts, is_searching,
                 search_inactive_count, agent_speeches_buffer, is_host_generating,
                 capture, forumVars, threadVars, histVars, startVars, gateVars, otherVars>>

\* monitor.py 753-755: the join has returned or timed out; write the end marker
stop_monitoring_end ==
  /\ stopping
  /\ stopping' = FALSE
  /\ UNCHANGED stops
  /\ forum_log' = forum_log \o write_to_forum_log(<<END_MARK>>, "SYSTEM")
  /\ UNCHANGED <<envVars, monitorVars, forum_exists, threadVars, histVars,
                 startVars, gateVars, otherVars>>

(***************************************************************************)
(* LogMonitor.monitor_logs (monitor.py 596-717), one thread t              *)
(***************************************************************************)
\* 601-606: record the current state of the logs as baseline
MonitorInit(t) ==
  /\ pc[t] = "init"
  /\ file_line_counts' = [a \in AppSet |-> get_file_line_count(engine_log[a])]
  /\ file_positions' = [a \in AppSet |-> get_file_size(engine_log[a])]
  /\ capture' = [a \in AppSet |-> NoCapture]
  /\ engine_log' = [a \in AppSet |-> Trim(engine_log[a], get_file_size(engine_log[a]))]
  /\ pc' = [pc EXCEPT ![t] = "top"]
  /\ UNCHANGED <<appended, truncs, truncated, is_monitoring, is_searching, search_inactive_count,
                 agent_speeches_buffer, is_host_generating, forumVars, idx, pending,
                 current_lines, any_growth, any_shrink, captured_any, stopVars,
                 histVars, startVars, gateVars, otherVars>>

\* 610-615: the loop condition and the flags of one poll
LogsUnchanged == \A a \in AppSet : get_file_line_count(engine_log[a]) = file_line_counts[a]
FastForward ==
  /\ is_monitoring /\ is_searching /\ LogsUnchanged
  /\ search_inactive_count >= MaxIdleTracked
  /\ search_inactive_count < INACTIVE_LIMIT - 1

LoopTop(t) ==
  /\ pc[t] = "top"
  /\ ~FastForward
  /\ pc' = [pc EXCEPT ![t] = IF is_monitoring THEN "app" ELSE "dead"]
  /\ idx' = [idx EXCEPT ![t] = 1]
  /\ any_growth' = [any_growth EXCEPT ![t] = FALSE]
  /\ any_shrink' = [any_shrink EXCEPT ![t] = FALSE]
  /\ captured_any' = [captured_any EXCEPT ![t] = FALSE]
  /\ last_batch' = NoBatch
  /\ UNCHANGED <<envVars, monitorVars, forumVars, pending, current_lines, stopVars,
                 session_msgs, invocations, synth_failed, prev_forum, startVars,
                 gateVars, otherVars>>

\* INACTIVE_LIMIT - 1 - search_inactive_count whole polls in which no log
\* changes: each of them only adds 1 to the counter (692-694)
IdlePolls(t) ==
  /\ pc[t] = "top"
  /\ FastForward
  /\ search_inactive_count' = INACTIVE_LIMIT - 1
  /\ UNCHANGED <<envVars, is_monitoring, file_positions, file_line_counts, is_searching,
                 agent_speeches_buffer, is_host_generating, capture, forumVars,
                 threadVars, stopVars, histVars, startVars, gateVars, otherVars>>

\* 674-675 and the step of the for loop: the thread goes on with the next
\* content, the next log or the end of the poll
Proceed(t, a, contents, lines_now) ==
  /\ pending' = [pending EXCEPT ![t] = contents]
  /\ IF contents # <<>>
     THEN /\ pc' = [pc EXCEPT ![t] = "publish"]
          /\ UNCHANGED <<idx, file_line_counts>>
     ELSE /\ file_line_counts' = [file_line_counts EXCEPT ![a] = lines_now]
          /\ IF idx[t] < Len(Apps)
             THEN /\ idx' = [idx EXCEPT ![t] = idx[t] + 1]
                  /\ pc' = [pc EXCEPT ![t] = "app"]
             ELSE /\ pc' = [pc EXCEPT ![t] = "end"]
                  /\ UNCHANGED idx

\* a clear_forum_log that keeps the lines of the file
clear_forum_log_Keep == forum_log \o write_to_forum_log(<<START_MARK>>, "SYSTEM")

\* 79-105: clear_forum_log, the file and the state it leaves
clear_forum_log == write_to_forum_log(<<START_MARK>>, "SYSTEM")

\* 619-645 for a log that has grown
AppGrowth(t) ==
  LET a == Apps[idx[t]]
      f == engine_log[a]
      now == get_file_line_count(f)
      read == read_new_lines(f, file_positions[a], capture[a])
      trigger == /\ ~is_searching
                 /\ \E i \in 1..Len(read.lines) :
                       /\ is_target_log_line(read.lines[i])
                       /\ is_first_summary_line(read.lines[i])
      entry == IF trigger THEN NoCapture ELSE read.st
      done == process_lines_for_json(read.lines, entry)
      searching == is_searching \/ trigger
  IN /\ pc[t] = "app"
     /\ now > file_line_counts[a]
     /\ any_growth' = [any_growth EXCEPT ![t] = TRUE]
     /\ file_positions' = [file_positions EXCEPT ![a] = read.position]
     /\ engine_log' = [engine_log EXCEPT ![a] = Trim(f, read.position)]
     /\ current_lines' = [current_lines EXCEPT ![t] = now]
     /\ is_searching' = searching
     /\ IF trigger
        THEN /\ search_inactive_count' = 0
             /\ forum_log' = clear_forum_log
             /\ agent_speeches_buffer' = <<>>
             /\ is_host_generating' = FALSE
             /\ session_msgs' = <<>>
             /\ invocations' = <<>>
             /\ synth_failed' = FALSE
             /\ prev_forum' = forum_log
        ELSE UNCHANGED <<search_inactive_count, forum_log, agent_speeches_buffer,
                         is_host_generating, session_msgs, invocations, synth_failed,
                         prev_forum>>
     /\ capture' = [b \in AppSet |->
                      IF b = a THEN (IF searching THEN done.st ELSE read.st)
                      ELSE IF trigger THEN NoCapture ELSE capture[b]]
     /\ last_batch' = IF searching
                      THEN [app |-> a, searching |-> TRUE, lines |-> read.lines,
                            yields |-> done.yields, outs |-> done.outs,
                            entry |-> entry, exit |-> done.st]
                      ELSE [NoBatch EXCEPT !.app = a, !.lines = read.lines]
     /\ Proceed(t, a, IF searching THEN done.outs ELSE <<>>, now)
     /\ truncated' = [truncated EXCEPT ![a] = FALSE]
     /\ UNCHANGED <<appended, truncs, is_monitoring, forum_exists, any_shrink,
                    captured_any, stopVars, startVars, gateVars, otherVars>>

\* 664-672 for a log that has shrunk
AppShrink(t) ==
  LET a == Apps[idx[t]]
      f == engine_log[a]
      now == get_file_line_count(f)
  IN /\ pc[t] = "app"
     /\ now < file_line_counts[a]
     /\ any_shrink' = [any_shrink EXCEPT ![t] = TRUE]
     /\ file_positions' = [file_positions EXCEPT ![a] = get_file_size(f)]
     /\ engine_log' = [engine_log EXCEPT ![a] = Trim(f, get_file_size(f))]
     /\ capture' = [capture EXCEPT ![a] = NoCapture]
     /\ current_lines' = [current_lines EXCEPT ![t] = now]
     /\ last_batch' = NoBatch
     /\ Proceed(t, a, <<>>, now)
     /\ truncated' = [truncated EXCEPT ![a] = FALSE]
     /\ UNCHANGED <<appended, truncs, is_monitoring, is_searching, search_inactive_count,
                    agent_speeches_buffer, is_host_generating, forumVars, any_growth,
                    captured_any, stopVars, session_msgs, invocations, synth_failed,
                    prev_forum, startVars, gateVars, otherVars>>

\* a log with as many lines as at the last poll
AppSame(t) ==
  LET a == Apps[idx[t]]
      now == get_file_line_count(engine_log[a])
  IN /\ pc[t] = "app"
     /\ now = file_line_counts[a]
     /\ current_lines' = [current_lines EXCEPT ![t] = now]
     /\ last_batch' = NoBatch
     /\ Proceed(t, a, <<>>, now)
     /\ truncated' = [truncated EXCEPT ![a] = FALSE]
     /\ UNCHANGED <<engine_log, appended, truncs, is_monitoring, file_positions,
                    is_searching,
                    search_inactive_count, agent_speeches_buffer, is_host_generating,
                    capture, forumVars, any_growth, any_shrink, captured_any, stopVars,
                    session_msgs, invocations, synth_failed, prev_forum, startVars,
                    gateVars, otherVars>>

\* 647-662 for one captured content; 534-552 when the host is triggered
Publish(t) ==
  LET a == Apps[idx[t]]
      content == Head(pending[t])
      source_tag == Upper(a)
      log_line == LogLine(source_tag, content)
      buffer == Append(agent_speeches_buffer, log_line)
      trigger == Len(buffer) >= HOST_SPEECH_THRESHOLD /\ ~is_host_generating
      recent_speeches == SubSeq(buffer, 1, HOST_BATCH)
      call == trigger /\ Len(recent_speeches) >= HOST_BATCH
  IN /\ pc[t] = "publish"
     /\ forum_log' = forum_log \o write_to_forum_log(content, source_tag)
     /\ captured_any' = [captured_any EXCEPT ![t] = TRUE]
     /\ agent_speeches_buffer' = buffer
     /\ session_msgs' = Append(session_msgs, log_line)
     /\ last_batch' = NoBatch
     /\ IF call
        THEN /\ is_host_generating' = TRUE
             /\ invocations' = Append(invocations, recent_speeches)
             /\ pc' = [pc EXCEPT ![t] = "synth"]
             /\ pending' = [pending EXCEPT ![t] = Tail(pending[t])]
             /\ UNCHANGED <<idx, file_line_counts>>
        ELSE /\ Proceed(t, a, Tail(pending[t]), current_lines[t])
             /\ UNCHANGED <<is_host_generating, invocations>>
     /\ UNCHANGED <<envVars, is_monitoring, file_positions, is_searching,
                    search_inactive_count, capture, forum_exists, current_lines,
                    any_growth, any_shrink, stopVars, synth_failed, prev_forum,
                    startVars, gateVars, otherVars>>

\* a moderator that leaves the utterances it has used in the buffer
Remaining_Keep(buffer) == buffer

\* 560: self.agent_speeches_buffer[5:]
Remaining(buffer) == SubSeq(buffer, HOST_BATCH + 1, Len(buffer))

\* a moderator that drops the five utterances of a failed attempt as well
HostReturn_DropOnFailure(t, host_speech) ==
  LET a == Apps[idx[t]]
  IN /\ pc[t] = "synth"
     /\ IF host_speech # <<>>
        THEN /\ forum_log' = forum_log \o write_to_forum_log(host_speech, "HOST")
             /\ agent_speeches_buffer' = Remaining(agent_speeches_buffer)
             /\ UNCHANGED synth_failed
        ELSE /\ synth_failed' = TRUE
             /\ agent_speeches_buffer' = Remaining(agent_speeches_buffer)
             /\ UNCHANGED forum_log
     /\ is_host_generating' = FALSE
     /\ Proceed(t, a, pending[t], current_lines[t])
     /\ UNCHANGED <<envVars, is_monitoring, file_positions, is_searching,
                    search_inactive_count, capture, forum_exists, current_lines,
                    any_growth, any_shrink, captured_any, stopVars, last_batch,
                    session_msgs, invocations, prev_forum, startVars, gateVars, otherVars>>

\* 552-569: generate_host_speech returns speech, or None (<<>>)
HostReturn(t, host_speech) ==
  LET a == Apps[idx[t]]
  IN /\ pc[t] = "synth"
     /\ IF host_speech # <<>>
        THEN /\ forum_log' = forum_log \o write_to_forum_log(host_speech, "HOST")
             /\ agent_speeches_buffer' = Remaining(agent_speeches_buffer)
             /\ UNCHANGED synth_failed
        ELSE /\ synth_failed' = TRUE
             /\ UNCHANGED <<forum_log, agent_speeches_buffer>>
     /\ is_host_generating' = FALSE
     /\ Proceed(t, a, pending[t], current_lines[t])
     /\ UNCHANGED <<envVars, is_monitoring, file_positions, is_searching,
                    search_inactive_count, capture, forum_exists, current_lines,
                    any_growth, any_shrink, captured_any, stopVars, last_batch,
                    session_msgs, invocations, prev_forum, startVars, gateVars, otherVars>>

\* 678-709: the end of a poll
EndSession ==
  /\ is_searching' = FALSE
  /\ search_inactive_count' = 0
  /\ agent_speeches_buffer' = <<>>
  /\ is_host_generating' = FALSE
  /\ forum_log' = forum_log \o write_to_forum_log(<<END_MARK>>, "SYSTEM")

PollEnd(t) ==
  /\ pc[t] = "end"
  /\ pc' = [pc EXCEPT ![t] = "top"]
  /\ IF ~is_searching
     THEN UNCHANGED <<is_searching, search_inactive_count, agent_speeches_buffer,
                      is_host_generating, forum_log>>
     ELSE IF any_shrink[t]
     THEN EndSession
     ELSE IF ~any_growth[t] /\ ~captured_any[t]
     THEN IF search_inactive_count + 1 >= INACTIVE_LIMIT
          THEN EndSession
          ELSE /\ search_inactive_count' = search_inactive_count + 1
               /\ UNCHANGED <<is_searching, agent_speeches_buffer, is_host_generating,
                              forum_log>>
     ELSE /\ search_inactive_count' = 0
          /\ UNCHANGED <<is_searching, agent_speeches_buffer, is_host_generating,
                         forum_log>>
  /\ UNCHANGED <<envVars, is_monitoring, file_positions, file_line_counts, capture,
                 forum_exists, idx, pending, current_lines, any_growth, any_shrink,
                 captured_any, stopVars, histVars, startVars, gateVars, otherVars>>

(***************************************************************************)
(* app.py: system start (189-294, 719-729, 1001-1026)                      *)
(***************************************************************************)
\* 211-219
_prepare_system_start ==
  IF system_state.started THEN [allowed |-> FALSE, message |-> "System already started"]
  ELSE IF system_state.starting THEN [allowed |-> FALSE, message |-> "System is starting"]
  ELSE [allowed |-> TRUE, message |-> "none"]

\* 1004-1006
SystemStart(c) ==
  /\ req_pc[c] = "idle"
  /\ starts < MaxStarts
  /\ starts' = starts + 1
  /\ LET prep == _prepare_system_start
     IN IF prep.allowed
        THEN /\ system_state' = [system_state EXCEPT !.starting = TRUE]
             /\ req_pc' = [req_pc EXCEPT ![c] = "stop_forum"]
             /\ req_result' = [req_result EXCEPT ![c] = "none"]
        ELSE /\ req_result' = [req_result EXCEPT ![c] = prep.message]
             /\ UNCHANGED <<system_state, req_pc>>
  /\ UNCHANGED <<tailerVars, forumVars, processes, forum_status, req_ok, started_by,
                 gateVars, otherVars>>

\* stop_forum_engine (331-339) with a join that returns: no loop thread is
\* blocked in a moderator call in the runs of the system start
StopForumJoined ==
  IF is_monitoring
  THEN /\ is_monitoring' = FALSE
       /\ pc' = [t \in Threads |-> "dead"]
       /\ forum_log' = forum_log \o write_to_forum_log(<<END_MARK>>, "SYSTEM")
  ELSE UNCHANGED <<is_monitoring, pc, forum_log>>

\* 227-241
InitStopForum(c) ==
  /\ req_pc[c] = "stop_forum"
  /\ StopForumJoined
  /\ forum_status' = "stopped"
  /\ req_pc' = [req_pc EXCEPT ![c] = "start_all"]
  /\ UNCHANGED <<envVars, file_positions, file_line_counts, is_searching,
                 search_inactive_count, agent_speeches_buffer, is_host_generating,
                 capture, forum_exists, idx, pending, current_lines, any_growth,
                 any_shrink, captured_any, stopVars, histVars, system_state, processes,
                 req_ok, req_result, starts, started_by,
                 gateVars, otherVars>>

StartOutcomes == {"ok", "missing", "spawn_fail", "died", "timeout"}

\* 245-258 with start_streamlit_app (562-633) and wait_for_app_startup (691-717)
StartedProcess(old, outcome) ==
  IF outcome = "missing" \/ old.process # "none" THEN old
  ELSE CASE outcome = "spawn_fail" -> old
         [] outcome = "ok" -> [process |-> "live", status |-> "running"]
         [] outcome = "died" -> [process |-> "exited", status |-> "starting"]
         [] outcome = "timeout" -> [process |-> "live", status |-> "starting"]

StartError(old, outcome) == outcome # "ok" \/ old.process # "none"

\* 572-579 and 632: the log of an engine that is started
StartedLog(old, outcome, f) ==
  IF outcome = "missing" \/ old.process # "none" THEN f
  ELSE [skipUnits |-> 0, skipLines |-> 0,
        rest |-> IF outcome = "spawn_fail"
                 THEN <<Line("NONE", "none", "starting"), Line("NONE", "none", "starting")>>
                 ELSE <<Line("NONE", "none", "starting")>>]

\* 243-283
InitStartAll(c, outcome, report_ok) ==
  /\ req_pc[c] = "start_all"
  /\ is_monitoring \/ \E t \in Threads : ~Alive(t)
  /\ processes' = [a \in AppSet |-> StartedProcess(processes[a], outcome[a])]
  /\ engine_log' = [a \in AppSet |-> StartedLog(processes[a], outcome[a], engine_log[a])]
  /\ IF is_monitoring
     THEN UNCHANGED <<is_monitoring, pc>>
     ELSE /\ is_monitoring' = TRUE
          /\ pc' = [pc EXCEPT ![FreeThread] = "init"]
  /\ started_by' = [a \in AppSet |->
                      IF processes[a].process = "none"
                         /\ StartedProcess(processes[a], outcome[a]).process # "none"
                      THEN c ELSE started_by[a]]
  /\ forum_status' = "running"
  /\ LET errors == ~report_ok \/ \E a \in AppSet : StartError(processes[a], outcome[a])
     IN /\ req_ok' = [req_ok EXCEPT ![c] = ~errors]
        /\ req_pc' = [req_pc EXCEPT ![c] = IF errors THEN "cleanup" ELSE "set_started"]
  /\ UNCHANGED <<appended, truncs, truncated, file_positions, file_line_counts,
                 is_searching,
                 search_inactive_count, agent_speeches_buffer, is_host_generating,
                 capture, forumVars, idx, pending, current_lines, any_growth,
                 any_shrink, captured_any, stopVars, histVars, system_state,
                 req_result, starts, gateVars, otherVars>>

\* 284-285: cleanup_processes (719-729)
InitCleanup(c) ==
  /\ req_pc[c] = "cleanup"
  /\ processes' = [a \in AppSet |-> [process |-> "none",
                     status |-> IF processes[a].process = "none"
                                THEN processes[a].status ELSE "stopped"]]
  /\ forum_status' = "stopped"
  /\ StopForumJoined
  /\ system_state' = [started |-> FALSE, starting |-> FALSE]
  /\ req_pc' = [req_pc EXCEPT ![c] = "rollback"]
  /\ UNCHANGED <<envVars, file_positions, file_line_counts, is_searching,
                 search_inactive_count, agent_speeches_buffer, is_host_generating,
                 capture, forum_exists, idx, pending, current_lines, any_growth,
                 any_shrink, captured_any, stopVars, histVars, req_ok, req_result,
                 starts, started_by,
                 gateVars, otherVars>>

\* 286-292
InitRollback(c) ==
  /\ req_pc[c] = "rollback"
  /\ forum_status' = "stopped"
  /\ StopForumJoined
  /\ req_pc' = [req_pc EXCEPT ![c] = "set_started"]
  /\ UNCHANGED <<envVars, file_positions, file_line_counts, is_searching,
                 search_inactive_count, agent_speeches_buffer, is_host_generating,
                 capture, forum_exists, idx, pending, current_lines, any_growth,
                 any_shrink, captured_any, stopVars, histVars, system_state, processes,
                 req_ok, req_result, starts, started_by,
                 gateVars, otherVars>>

\* 1010-1020
SetStarted(c) ==
  /\ req_pc[c] = "set_started"
  /\ system_state' = [system_state EXCEPT !.started = req_ok[c]]
  /\ req_pc' = [req_pc EXCEPT ![c] = "finally"]
  /\ UNCHANGED <<tailerVars, forumVars, processes, forum_status, req_ok, req_result,
                 starts, started_by,
                 gateVars, otherVars>>

\* 1025-1026
Finally(c) ==
  /\ req_pc[c] = "finally"
  /\ system_state' = [system_state EXCEPT !.starting = FALSE]
  /\ req_result' = [req_result EXCEPT ![c] =
                      IF req_ok[c] THEN "System startup successful"
                      ELSE "System startup failed"]
  /\ req_pc' = [req_pc EXCEPT ![c] = "idle"]
  /\ UNCHANGED <<tailerVars, forumVars, processes, forum_status, req_ok, starts, started_by,
                 gateVars, otherVars>>

NextStart ==
  \/ \E c \in Clients : SystemStart(c)
  \/ \E c \in Clients : InitStopForum(c)
  \/ \E c \in Clients, outcome \in [AppSet -> StartOutcomes], report_ok \in BOOLEAN :
        InitStartAll(c, outcome, report_ok)
  \/ \E c \in Clients : InitCleanup(c)
  \/ \E c \in Clients : InitRollback(c)
  \/ \E c \in Clients : SetStarted(c)
  \/ \E c \in Clients : Finally(c)

SpecStart == Init /\ [][NextStart]_vars

\* a request is inside initialize_system_components (app.py 222-294)
Initializing(c) == req_pc[c] \in {"stop_forum", "start_all", "cleanup", "rollback"}

\* C1: under any interleaving of SystemStart requests, at most one request is
\* inside initialize_system_components at any time (two initializations never
\* overlap).
SingleFlightInit == Cardinality({c \in Clients : Initializing(c)}) <= 1

\* C13: whenever a SystemStart request whose initialization failed (a missing
\* script, a spawn failure, a health check that does not pass, a failed
\* report-engine initialization) returns init_failed, every engine worker it
\* started has been stopped (no child handle, status stopped), the forum
\* monitor is stopped, and started and starting are both false.
StartRollback ==
  [][\A c \in Clients :
       (Finally(c) /\ ~req_ok[c]) =>
         /\ \A a \in AppSet :
              started_by[a] = c =>
                processes'[a].process = "none" /\ processes'[a].status = "stopped"
         /\ forum_status' = "stopped"
         /\ ~is_monitoring'
         /\ ~system_state'.started
         /\ ~system_state'.starting]_vars

(***************************************************************************)
(* Runs of the tailer                                                      *)
(***************************************************************************)
TailerStep(t) ==
  \/ MonitorInit(t)
  \/ LoopTop(t)
  \/ AppGrowth(t)
  \/ AppSame(t)
  \/ Publish(t)
  \/ PollEnd(t)

\* the session gate: three engines, few kinds of lines
SessionLines ==
  {Line("INFO", "summary", "marker"), Line("ERROR", "summary", "marker"),
   Line("INFO", "summary", "single")}

NextSession ==
  \/ \E a \in AppSet, line \in SessionLines : EngineAppend(a, line, MaxAppend)
  \/ \E a \in AppSet : EngineTruncate(a)
  \/ start_monitoring(TRUE)
  \/ \E t \in Threads : TailerStep(t)
  \/ \E t \in Threads : AppShrink(t)
  \/ \E t \in Threads : IdlePolls(t)

SpecSession == Init /\ [][NextSession]_vars

(***************************************************************************)
(* The lines of forum.log as a reader sees them (file.readlines)           *)
(***************************************************************************)
\* the text is cut at its first newline; cur is the part of the line read
\* before text
RECURSIVE PhysicalLines(_, _)
PhysicalLines(text, cur) ==
  IF text = <<>> THEN (IF cur = <<>> THEN <<>> ELSE <<cur>>)
  ELSE IF \A i \in 1..Len(text) : text[i] # NL THEN <<cur \o text>>
  ELSE LET nl == CHOOSE i \in 1..Len(text) :
                   text[i] = NL /\ \A j \in 1..(i - 1) : text[j] # NL
       IN <<cur \o SubSeq(text, 1, nl - 1)>>
            \o PhysicalLines(SubSeq(text, nl + 1, Len(text)), <<>>)

ForumLines == PhysicalLines(forum_log, <<>>)

\* ^\[HH:MM:SS\] \[<SOURCE>\] <body>$
HasLineFormat(l) ==
  /\ Len(l) >= 8
  /\ SubSeq(l, 1, 5) = <<"[", TS, "]", SP, "[">>
  /\ l[6] \in Sources
  /\ SubSeq(l, 7, 8) = <<"]", SP>>
  /\ \A i \in 9..Len(l) : l[i] \notin {NL, CR}

\* C2: at every moment every physical line of forum.log has the form
\* [HH:MM:SS] [SOURCE] body, with SOURCE one of SYSTEM, HOST, QUERY, MEDIA,
\* INSIGHT and no raw newline in the body, whichever writer produced it.
ForumLineFormat == \A i \in 1..Len(ForumLines) : HasLineFormat(ForumLines[i])

AgentSources == {"QUERY", "MEDIA", "INSIGHT", "HOST"}

\* the lines of a forum text written for an engine or for the host
RECURSIVE SelectAgent(_)
SelectAgent(ls) ==
  IF ls = <<>> THEN <<>>
  ELSE IF Len(Head(ls)) >= 6 /\ Head(ls)[6] \in AgentSources
       THEN <<Head(ls)>> \o SelectAgent(Tail(ls))
       ELSE SelectAgent(Tail(ls))

AgentLines(text) == SelectAgent(PhysicalLines(text, <<>>))

\* thread t takes the step that examines the log of engine Apps[idx[t]]
Examines(t) == pc[t] = "app" /\ (pc'[t] # "app" \/ idx'[t] # idx[t])

\* the lines that step reads
NewLines(t) ==
  read_new_lines(engine_log[Apps[idx[t]]], file_positions[Apps[idx[t]]], NoCapture).lines

IsFirstSummaryMarker(l) ==
  /\ l.level # "ERROR"
  /\ l.logger = "summary" \/ BodyInfo(l.body).pattern
  /\ BodyInfo(l.body).first

\* C5: while the tailer waits, no engine or HOST message is appended to
\* forum.log and nothing is added to the moderator buffer; the tailer leaves
\* the waiting state only in a step that reads a non-ERROR target line with
\* the first-summary marker.
SessionGate ==
  [][/\ ~is_searching =>
          /\ Len(AgentLines(forum_log')) <= Len(AgentLines(forum_log))
          /\ agent_speeches_buffer' \in {agent_speeches_buffer, <<>>}
     /\ (~is_searching /\ is_searching') =>
          \E t \in Threads :
            /\ Examines(t)
            /\ \E i \in 1..Len(NewLines(t)) : IsFirstSummaryMarker(NewLines(t)[i])]_vars

\* the tailer has read a publishable line and a marker at ERROR level while
\* waiting, and still waits with nothing published
SessionGateWitness ==
  /\ ~is_searching
  /\ ~last_batch.searching
  /\ \E i \in 1..Len(last_batch.lines) :
        last_batch.lines[i] = Line("INFO", "summary", "single")
  /\ \E i \in 1..Len(last_batch.lines) :
        last_batch.lines[i] = Line("ERROR", "summary", "marker")
  /\ AgentLines(forum_log) = <<>>
  /\ agent_speeches_buffer = <<>>

StartLine == LogLine("SYSTEM", <<START_MARK>>)
EndLine == LogLine("SYSTEM", <<END_MARK>>)

EndsPoll(t) == pc[t] = "end" /\ pc'[t] = "top"

\* C7: a searching session returns to waiting when a poll finds an engine log
\* truncated, or after 7200 consecutive polls without growth or capture (the
\* counter goes back to 0 on a poll with growth or a capture), and in no other
\* case; each return writes the forum-ended marker and empties the buffer.
SessionEnd ==
  [][/\ \A t \in Threads :
          (Examines(t) /\ is_searching /\ truncated[Apps[idx[t]]]) => any_shrink'[t]
     /\ \A t \in Threads :
          (EndsPoll(t) /\ is_searching) =>
            /\ any_shrink[t] => ~is_searching'
            /\ (~any_shrink[t] /\ (any_growth[t] \/ captured_any[t]))
                 => (is_searching' /\ search_inactive_count' = 0)
            /\ (~any_shrink[t] /\ ~any_growth[t] /\ ~captured_any[t])
                 => IF search_inactive_count + 1 >= INACTIVE_LIMIT
                    THEN ~is_searching'
                    ELSE is_searching' /\ search_inactive_count' = search_inactive_count + 1
     /\ (is_searching /\ ~is_searching') =>
          /\ \E t \in Threads : EndsPoll(t)
          /\ forum_log' = forum_log \o EndLine \o <<NL>>
          /\ agent_speeches_buffer' = <<>>]_vars

\* thread t examines an engine log whose size is below the recorded offset
SeesTruncation(t) ==
  /\ Examines(t)
  /\ get_file_size(engine_log[Apps[idx[t]]]) < file_positions[Apps[idx[t]]]

\* C15: when the size of an engine log is seen to be smaller than the
\* recorded offset, the poll resets the offset to 0 and clears capturing_json,
\* json_buffer and in_error_block: the content of the truncated file is read
\* from its beginning, and a start-of-session marker in it is accepted and
\* re-initializes forum.log.
TruncationReset ==
  [][\A t \in Threads :
       SeesTruncation(t) =>
         LET a == Apps[idx[t]]
             content == ReadFrom(engine_log[a], 0)
         IN /\ last_batch'.lines = content
            /\ last_batch'.entry = NoCapture
            /\ file_positions'[a] = get_file_size(engine_log[a])
            /\ (\E i \in 1..Len(content) : IsFirstSummaryMarker(content[i]))
                 => (is_searching' /\ forum_log' = StartLine \o <<NL>>)]_vars

(***************************************************************************)
(* The line filter: one engine in an active session writes lines of every  *)
(* kind the filter tells apart                                             *)
(***************************************************************************)
MarkerLine == Line("INFO", "summary", "marker")

FilterLines ==
  {Line("INFO", "summary", "single"), Line("INFO", "summary", "open"),
   Line("INFO", "summary", "kv_short"), Line("INFO", "summary", "kv_long"),
   Line("INFO", "summary", "close"), Line("ERROR", "summary", "failed"),
   Line("WARNING", "summary", "single"), Line("NONE", "none", "close")}

NextFilter ==
  \/ \E line \in FilterLines \cup {MarkerLine} :
        /\ (appended = 0) <=> (line = MarkerLine)
        /\ EngineAppend("insight", line, MaxFilterAppend)
  \/ start_monitoring(TRUE)
  \/ \E t \in Threads : TailerStep(t)
  \/ \E t \in Threads : IdlePolls(t)

SpecFilter == Init /\ [][NextFilter]_vars

\* line i of batch b lies in an ERROR block: it is an ERROR line, or it is not
\* an INFO line and the closest ERROR or INFO line before it is an ERROR line
InErrorBlock(b, i) ==
  \/ b.lines[i].level = "ERROR"
  \/ /\ b.lines[i].level # "INFO"
     /\ \/ \E j \in 1..(i - 1) :
             /\ b.lines[j].level = "ERROR"
             /\ \A k \in (j + 1)..(i - 1) : b.lines[k].level # "INFO"
        \/ /\ b.entry.err
           /\ \A k \in 1..(i - 1) : b.lines[k].level # "INFO"

\* line i of batch b is the INFO line that ends an ERROR block
EndsErrorBlock(b, i) ==
  /\ b.lines[i].level = "INFO"
  /\ IF i = 1 THEN b.entry.err ELSE InErrorBlock(b, i - 1)

RECURSIVE SumSeq(_)
SumSeq(s) == IF s = <<>> THEN 0 ELSE Head(s) + SumSeq(Tail(s))

\* the contents that lines i..k of batch b produced
OutsOf(b, i, k) ==
  SubSeq(b.outs, SumSeq(SubSeq(b.yields, 1, i - 1)) + 1, SumSeq(SubSeq(b.yields, 1, k)))

\* C3: after an ERROR line every line up to the next INFO line yields no
\* message and discards the capture in flight; the INFO line that ends the
\* block is processed normally, a single-line Cleaned output on it yields
\* exactly one message.
ErrorBlockFilter ==
  \A i \in 1..Len(last_batch.lines) :
   last_batch.searching =>
    /\ InErrorBlock(last_batch, i) => last_batch.yields[i] = 0
    /\ (i = Len(last_batch.lines) /\ InErrorBlock(last_batch, i))
         => (~last_batch.exit.cap /\ last_batch.exit.buf = <<>>)
    /\ (EndsErrorBlock(last_batch, i) /\ last_batch.lines[i] = Line("INFO", "summary", "single"))
         => OutsOf(last_batch, i, i) = << <<"ok">> >>

\* a batch in which a line that would be published falls into an ERROR block
\* and the INFO line that ends the block yields its message
ErrorBlockFilterWitness ==
  \E i \in 1..Len(last_batch.lines), j \in 1..Len(last_batch.lines) :
    /\ last_batch.searching
    /\ i < j
    /\ InErrorBlock(last_batch, i)
    /\ last_batch.lines[i] = Line("WARNING", "summary", "single")
    /\ EndsErrorBlock(last_batch, j)
    /\ last_batch.lines[j] = Line("INFO", "summary", "single")
    /\ last_batch.yields[j] = 1

\* lines i..k of batch b are one multi-line emission of a summary node, every
\* line with its log prefix
IsEmission(b, i, k) ==
  /\ i < k
  /\ b.lines[i] = Line("INFO", "summary", "open")
  /\ b.lines[k] = Line("INFO", "summary", "close")
  /\ \A m \in (i + 1)..(k - 1) :
        b.lines[m] \in {Line("INFO", "summary", "kv_short"), Line("INFO", "summary", "kv_long")}

\* C4: a multi-line Cleaned output emission whose start, continuation and
\* terminator lines all carry a valid summary-node log prefix is published in
\* an active session as exactly one message, built from the reassembled and
\* parsed JSON object.
JsonReassembly ==
  \A i \in 1..Len(last_batch.lines), k \in 1..Len(last_batch.lines) :
    (last_batch.searching /\ IsEmission(last_batch, i, k))
      => LET parsed == json_loads(JoinJson(SubSeq(last_batch.lines, i, k)))
         IN parsed.ok =>
              OutsOf(last_batch, i, k) = <<_clean_content_tags(format_json_content(parsed))>>

\* the emissions of a summary whose text holds a newline: on one line, or on
\* several lines of which the continuation lines carry a log prefix or none
NewlineLines ==
  {Line("INFO", "summary", "single_nl"), Line("INFO", "summary", "open"),
   Line("INFO", "summary", "kv_long"), Line("NONE", "none", "kv_long"),
   Line("INFO", "summary", "close"), Line("NONE", "none", "close")}

NextNewline ==
  \/ \E line \in NewlineLines \cup {MarkerLine} :
        /\ (appended = 0) <=> (line = MarkerLine)
        /\ EngineAppend("insight", line, MaxFilterAppend)
  \/ start_monitoring(TRUE)
  \/ \E t \in Threads : TailerStep(t)
  \/ \E t \in Threads : IdlePolls(t)

SpecNewline == Init /\ [][NextNewline]_vars

\* lines i..k of batch b are one emission of a summary node: the single line,
\* or a start line, continuation lines and a terminator
IsSummaryEmission(b, i, k) ==
  \/ i = k /\ b.lines[i] = Line("INFO", "summary", "single_nl")
  \/ /\ i < k
     /\ b.lines[i] = Line("INFO", "summary", "open")
     /\ b.lines[k].body = "close"
     /\ \A m \in (i + 1)..(k - 1) : b.lines[m].body = "kv_long"

HasNewline(content) == \E j \in 1..Len(content) : content[j] = NL

\* C16: a captured summary whose text holds a newline is published as one
\* forum line in which the newline stands as backslash-n: for the emission
\* with the JSON value "alpha\nbeta" the body of the line is alpha\nbeta.
NewlineEscaped ==
  \A i \in 1..Len(last_batch.lines), k \in 1..Len(last_batch.lines) :
    (last_batch.searching /\ IsSummaryEmission(last_batch, i, k))
      => LET parsed == json_loads(JoinJson(SubSeq(last_batch.lines, i, k)))
         IN (parsed.ok /\ HasNewline(format_json_content(parsed)))
              => /\ Len(OutsOf(last_batch, i, k)) = 1
                 /\ OneLine(OutsOf(last_batch, i, k)[1]) = <<"alpha", BS, "n", "beta">>

(***************************************************************************)
(* The moderator: an engine that logs the marker as the first line of a    *)
(* run and single-line Cleaned output after it, and goes on logging before *)
(* the session times out                                                   *)
(***************************************************************************)
SingleLine == Line("INFO", "summary", "single")

SingleLines == <<SingleLine, Line("INFO", "summary", "single_x")>>

\* the engine writes the marker and then the lines of a cycle, in turn
EngineRun(a, cycle, max) ==
  LET n == get_file_line_count(engine_log[a])
  IN EngineAppend(a, IF n = 0 THEN MarkerLine ELSE cycle[(n % Len(cycle)) + 1], max)

HostOutcomes == HostSpeeches \cup {<<>>}

NextModerator ==
  \/ EngineRun("insight", SingleLines, MaxDeepAppend)
  \/ start_monitoring(TRUE)
  \/ \E t \in Threads : TailerStep(t)
  \/ \E t \in Threads, host_speech \in HostOutcomes : HostReturn(t, host_speech)

SpecModerator == Init /\ [][NextModerator]_vars

InFlight == {t \in Threads : pc[t] = "synth"}

\* C8: with every synthesis succeeding, after n messages captured in a
\* session the moderator has been invoked n div 5 times, the k-th time on
\* messages 5k-4..5k of the session in their order, and n mod 5 utterances
\* remain buffered once no synthesis is in flight.
ModeratorBatches ==
  (is_searching /\ ~synth_failed) =>
    LET n == Len(session_msgs)
        done == Len(invocations) - Cardinality(InFlight)
    IN /\ Len(invocations) = n \div HOST_BATCH
       /\ \A k \in 1..Len(invocations) :
            invocations[k] = SubSeq(session_msgs, HOST_BATCH * (k - 1) + 1, HOST_BATCH * k)
       /\ agent_speeches_buffer = SubSeq(session_msgs, HOST_BATCH * done + 1, n)
       /\ InFlight = {} => Len(agent_speeches_buffer) = n % HOST_BATCH

\* 12 messages, not all alike: 2 invocations and 2 buffered
ModeratorBatchesWitness ==
  /\ is_searching /\ ~synth_failed /\ InFlight = {}
  /\ Len(session_msgs) = 12
  /\ Len(invocations) = 2
  /\ Len(agent_speeches_buffer) = 2
  /\ \E i, j \in 1..5 : invocations[1][i] # invocations[1][j]

(***************************************************************************)
(* Restart: stop_monitoring called while the moderator is at work, so that *)
(* its join times out, and start_monitoring.  The moderator calls of these *)
(* runs take longer than the run.                                          *)
(***************************************************************************)
NextRestart ==
  \/ EngineRun("insight", <<SingleLine>>, MaxRestartAppend)
  \/ EngineTruncate("insight")
  \/ start_monitoring(FALSE)
  \/ InFlight # {} /\ stop_monitoring_begin
  \/ stop_monitoring_end
  \/ \E t \in Threads : TailerStep(t)
  \/ \E t \in Threads : AppShrink(t)

SpecRestart == Init /\ [][NextRestart]_vars

\* C9: at most one moderator synthesis is in flight at any time, under any
\* interleaving of the tailer loop, session resets and start_monitoring /
\* stop_monitoring calls.
OneSynthesis == Cardinality(InFlight) <= 1

(***************************************************************************)
(* Restart with a moderator call that returns: stop_monitoring gives up    *)
(* its join while the loop thread is in generate_host_speech, a second     *)
(* loop thread is started, and the first one goes on when the call returns *)
(* (is_monitoring is true again).                                          *)
(***************************************************************************)
NextOverlap ==
  \/ EngineRun("insight", SingleLines, MaxOverlapAppend)
  \/ start_monitoring(FALSE)
  \/ InFlight # {} /\ stop_monitoring_begin
  \/ stop_monitoring_end
  \/ \E t \in Threads : TailerStep(t)
  \/ \E t \in Threads, host_speech \in HostOutcomes : HostReturn(t, host_speech)

SpecOverlap == Init /\ [][NextOverlap]_vars

\* the lines of forum.log written for engine a
RECURSIVE SelectSource(_, _)
SelectSource(ls, source) ==
  IF ls = <<>> THEN <<>>
  ELSE IF Len(Head(ls)) >= 6 /\ Head(ls)[6] = source
       THEN <<Head(ls)>> \o SelectSource(Tail(ls), source)
       ELSE SelectSource(Tail(ls), source)

EngineMessages(a) == SelectSource(ForumLines, Upper(a))

\* the forum lines of the emissions an engine run has logged after its
\* marker, in the order of the log
Emitted(a) ==
  [k \in 1..(get_file_line_count(engine_log[a]) - 1) |->
     LogLine(Upper(a),
             OneLine(process_lines_for_json(<<SingleLines[(k % Len(SingleLines)) + 1]>>,
                                            NoCapture).outs[1]))]

\* s can be had from t by leaving elements out
RECURSIVE IsSubseq(_, _)
IsSubseq(s, t) ==
  IF s = <<>> THEN TRUE
  ELSE IF t = <<>> THEN FALSE
  ELSE IF Head(s) = Head(t) THEN IsSubseq(Tail(s), Tail(t))
  ELSE IsSubseq(s, Tail(t))

\* C14: within a session the messages of each engine stand in forum.log in
\* the order of the log lines they were captured from, and no emission is
\* published twice: the engine's forum lines are the lines of its emissions,
\* in log order, each at most once.
ForumOrder ==
  is_searching => \A a \in AppSet : IsSubseq(EngineMessages(a), Emitted(a))

(***************************************************************************)
(* ReportEngine: the file-count readiness gate (agent.py 22-106, 405-464)  *)
(***************************************************************************)
\* len([f for f in os.listdir(directory) if f.endswith('.md')])
CurrentCount(a) == IF dir_exists[a] THEN md_count[a] ELSE 0

\* a comparison that takes an unchanged count for new files
HasNew_OrEqual(current, baseline) == current >= baseline

\* agent.py 79
HasNew(current, baseline) == current > baseline

\* agent.py 65-93: the loop over the engines, from engine k on
RECURSIVE CheckFrom(_)
CheckFrom(k) ==
  IF k > Len(Apps) THEN [all_have_new |-> TRUE, new_files_found |-> [a \in AppSet |-> 0]]
  ELSE LET engine == Apps[k]
           more == CheckFrom(k + 1)
           found == dir_exists[engine] /\ HasNew(CurrentCount(engine), baseline_data[engine])
       IN [all_have_new |-> found /\ more.all_have_new,
           new_files_found |->
             [more.new_files_found EXCEPT
                ![engine] = IF found THEN CurrentCount(engine) - baseline_data[engine] ELSE 0]]

check_new_files ==
  [ready |-> CheckFrom(1).all_have_new, new_files_found |-> CheckFrom(1).new_files_found]

\* an engine saves a report, creating its directory if need be
WriteReport(a) ==
  /\ CurrentCount(a) < MaxFiles
  /\ md_count' = [md_count EXCEPT ![a] = CurrentCount(a) + 1]
  /\ dir_exists' = [dir_exists EXCEPT ![a] = TRUE]
  /\ check_result' = NoCheck
  /\ UNCHANGED <<tailerVars, forumVars, startVars, otherVars, baseline_data>>

\* a report is deleted
DeleteReport(a) ==
  /\ CurrentCount(a) > 0
  /\ md_count' = [md_count EXCEPT ![a] = md_count[a] - 1]
  /\ check_result' = NoCheck
  /\ UNCHANGED <<tailerVars, forumVars, startVars, otherVars, dir_exists, baseline_data>>

\* a report directory is removed
RemoveDir(a) ==
  /\ dir_exists[a]
  /\ dir_exists' = [dir_exists EXCEPT ![a] = FALSE]
  /\ md_count' = [md_count EXCEPT ![a] = 0]
  /\ check_result' = NoCheck
  /\ UNCHANGED <<tailerVars, forumVars, startVars, otherVars, baseline_data>>

\* logs/forum.log is removed, or created again by init_forum_log
RemoveForumLog ==
  /\ forum_exists
  /\ forum_exists' = FALSE
  /\ forum_log' = <<>>
  /\ check_result' = NoCheck
  /\ UNCHANGED <<tailerVars, startVars, otherVars, md_count, dir_exists, baseline_data>>

CreateForumLog ==
  /\ ~forum_exists
  /\ forum_exists' = TRUE
  /\ forum_log' = init_forum_log
  /\ check_result' = NoCheck
  /\ UNCHANGED <<tailerVars, startVars, otherVars, md_count, dir_exists, baseline_data>>

\* agent.py 47-63, called when a ReportAgent is constructed (155-162)
initialize_baseline ==
  /\ \A a \in AppSet : CurrentCount(a) <= MaxBaseline
  /\ baseline_data' = [a \in AppSet |-> CurrentCount(a)]
  /\ check_result' = NoCheck
  /\ UNCHANGED <<tailerVars, forumVars, startVars, otherVars, md_count, dir_exists>>

\* agent.py 405-464
check_input_files ==
  LET result == check_new_files
      forum_ready == forum_exists
  IN /\ check_result' = [valid |-> TRUE,
                         ready |-> result.ready /\ forum_ready,
                         new_files_found |-> result.new_files_found]
     /\ UNCHANGED <<tailerVars, forumVars, startVars, otherVars, md_count, dir_exists, baseline_data>>

NextGate ==
  \/ \E a \in AppSet : WriteReport(a)
  \/ \E a \in AppSet : DeleteReport(a)
  \/ \E a \in AppSet : RemoveDir(a)
  \/ RemoveForumLog
  \/ CreateForumLog
  \/ initialize_baseline
  \/ check_input_files

SpecGate == Init /\ [][NextGate]_vars

\* C10: Check answers ready exactly when every engine directory exists and
\* holds strictly more .md files than the baseline of the engine, and the
\* forum log exists.
ReadyIff ==
  check_result.valid =>
    (check_result.ready <=>
       /\ \A a \in AppSet : dir_exists[a] /\ md_count[a] > baseline_data[a]
       /\ forum_exists)

\* baseline 3/3/3, two new media reports and one more in query and insight:
\* ready
ReadyIffWitness ==
  /\ check_result.valid /\ check_result.ready
  /\ baseline_data = [a \in AppSet |-> 3]
  /\ md_count = [insight |-> 4, media |-> 5, query |-> 4]

(***************************************************************************)
(* ReportEngine: the compositor (flask_interface.py)                       *)
(***************************************************************************)
\* 57-64
update_status(t, status, progress, error_message) ==
  [t EXCEPT !.status = status, !.progress = progress,
            !.error_message = IF error_message # "" THEN error_message ELSE @]

\* 85-106
check_engines_ready ==
  IF ~report_agent THEN FALSE ELSE check_new_files.ready /\ forum_exists

\* 66-80, as the progress reply shows it
to_dict(t) ==
  [code |-> 200, task_id |-> t.task_id, status |-> t.status,
   error_message |-> t.error_message, html |-> 0]

\* 26-35: create_agent constructs a ReportAgent, whose constructor records the
\* baseline (agent.py 134-135); a failing construction leaves the global as
\* it was
initialize_report_engine(ok) ==
  /\ ~report_agent
  /\ IF ok
     THEN /\ report_agent' = TRUE
          /\ baseline_data' = [a \in AppSet |-> CurrentCount(a)]
          /\ check_result' = NoCheck
     ELSE UNCHANGED <<report_agent, baseline_data, check_result>>
  /\ UNCHANGED <<tailerVars, forumVars, startVars, researchVars, utilVars, md_count, dir_exists, current_task,
                 task, created, worker_pc, gen_pc, gen_reply, report_files, clock, cancelled, failed_task>>

\* a second passes on the clock that names the tasks (226)
Tick ==
  /\ clock < MaxClock
  /\ clock' = clock + 1
  /\ UNCHANGED <<tailerVars, forumVars, startVars, researchVars, utilVars, gateVars, report_agent, current_task,
                 task, created, worker_pc, gen_pc, gen_reply, report_files, cancelled, failed_task>>

\* 187-199: the check under task_lock
GenerateCheck(c) ==
  /\ gen_pc[c] = "idle"
  /\ failed_task' = 0
  /\ IF current_task # 0 /\ task[current_task].status = "running"
     THEN /\ gen_reply' = [gen_reply EXCEPT ![c] = "already_running"]
          /\ UNCHANGED <<gen_pc, current_task>>
     ELSE /\ current_task' = IF current_task # 0
                                /\ task[current_task].status \in {"completed", "error"}
                             THEN 0 ELSE current_task
          /\ gen_pc' = [gen_pc EXCEPT ![c] = "checked"]
          /\ gen_reply' = [gen_reply EXCEPT ![c] = "none"]
  /\ UNCHANGED <<tailerVars, forumVars, startVars, researchVars, utilVars, gateVars, report_agent, task, created,
                 worker_pc,  report_files, clock, cancelled>>

\* 201-245: the checks made without the lock, the new task and its thread
GenerateSpawn(c) ==
  /\ gen_pc[c] = "checked"
  /\ gen_pc' = [gen_pc EXCEPT ![c] = "idle"]
  /\ IF ~report_agent
     THEN /\ gen_reply' = [gen_reply EXCEPT ![c] = "not_initialized"]
          /\ UNCHANGED <<current_task, task, created, worker_pc>>
     ELSE IF ~check_engines_ready
     THEN /\ gen_reply' = [gen_reply EXCEPT ![c] = "not_ready"]
          /\ UNCHANGED <<current_task, task, created, worker_pc>>
     ELSE /\ created < MaxTasks
          /\ created' = created + 1
          /\ task' = [task EXCEPT ![created + 1] = ReportTask(clock)]
          /\ current_task' = created + 1
          /\ worker_pc' = [worker_pc EXCEPT ![created + 1] = "start"]
          /\ gen_reply' = [gen_reply EXCEPT ![c] = "started"]
  /\ failed_task' = 0
  /\ UNCHANGED <<tailerVars, forumVars, startVars, researchVars, utilVars, gateVars, report_agent,
                 report_files, clock, cancelled>>

\* 114
WorkerStart(o) ==
  /\ worker_pc[o] = "start"
  /\ task' = [task EXCEPT ![o] = update_status(@, "running", 10, "")]
  /\ worker_pc' = [worker_pc EXCEPT ![o] = "check"]
  /\ UNCHANGED <<tailerVars, forumVars, startVars, researchVars, utilVars, gateVars, report_agent, current_task,
                 created, gen_pc, gen_reply, report_files,
                 clock, cancelled, failed_task>>

\* 117-122
WorkerCheck(o) ==
  /\ worker_pc[o] = "check"
  /\ IF ~check_engines_ready
     THEN /\ task' = [task EXCEPT ![o] = update_status(@, "error", 0, "Input files not ready")]
          /\ worker_pc' = [worker_pc EXCEPT ![o] = "done"]
          /\ failed_task' = IF current_task = o THEN o ELSE failed_task
     ELSE /\ task' = [task EXCEPT ![o] = update_status(@, "running", 30, "")]
          /\ worker_pc' = [worker_pc EXCEPT ![o] = "load"]
          /\ UNCHANGED failed_task
  /\ UNCHANGED <<tailerVars, forumVars, startVars, researchVars, utilVars, gateVars, report_agent, current_task,
                 created, gen_pc, gen_reply, report_files,
                 clock, cancelled>>

\* 125-127: load_input_files keeps its errors to itself (agent.py 466-503)
WorkerLoad(o) ==
  /\ worker_pc[o] = "load"
  /\ task' = [task EXCEPT ![o] = update_status(@, "running", 50, "")]
  /\ worker_pc' = [worker_pc EXCEPT ![o] = "generate"]
  /\ UNCHANGED <<tailerVars, forumVars, startVars, researchVars, utilVars, gateVars, report_agent, current_task,
                 created, gen_pc, gen_reply, report_files,
                 clock, cancelled, failed_task>>

GenerateOutcomes == {"saved", "save_error"}

\* 130-136 with ReportAgent.generate_report (agent.py 180-232): template
\* selection and HTML generation fall back on failure, _save_report (356-389)
\* writes the report file or raises; the handler of 151-153 records the error
WorkerGenerate(o, outcome) ==
  /\ worker_pc[o] = "generate"
  /\ IF outcome = "saved"
     THEN /\ report_files' = report_files \cup {o}
          /\ worker_pc' = [worker_pc EXCEPT ![o] = "result"]
          /\ UNCHANGED <<task, failed_task>>
     ELSE /\ task' = [task EXCEPT ![o] = update_status(@, "error", 0, "save failed")]
          /\ worker_pc' = [worker_pc EXCEPT ![o] = "cleanup"]
          /\ failed_task' = IF current_task = o THEN o ELSE failed_task
          /\ UNCHANGED report_files
  /\ UNCHANGED <<tailerVars, forumVars, startVars, researchVars, utilVars, gateVars, report_agent, current_task,
                 created, gen_pc, gen_reply,  clock, cancelled>>

\* a worker that records the file counts as the new baseline when its report
\* is complete
WorkerResult_Rebaseline(o) ==
  /\ worker_pc[o] = "result"
  /\ task' = [task EXCEPT ![o] =
                update_status([@ EXCEPT !.html_content = o, !.report_file_path = o],
                              "completed", 100, "")]
  /\ worker_pc' = [worker_pc EXCEPT ![o] = "done"]
  /\ baseline_data' = [a \in AppSet |-> CurrentCount(a)]
  /\ UNCHANGED <<tailerVars, forumVars, startVars, researchVars, utilVars, md_count,
                 dir_exists, check_result, report_agent, current_task,
                 created, gen_pc, gen_reply, report_files,
                 clock, cancelled, failed_task>>

\* 138-149
WorkerResult(o) ==
  /\ worker_pc[o] = "result"
  /\ task' = [task EXCEPT ![o] =
                update_status([@ EXCEPT !.html_content = o, !.report_file_path = o],
                              "completed", 100, "")]
  /\ worker_pc' = [worker_pc EXCEPT ![o] = "done"]
  /\ UNCHANGED <<tailerVars, forumVars, startVars, researchVars, utilVars, gateVars, report_agent, current_task,
                 created, gen_pc, gen_reply, report_files,
                 clock, cancelled, failed_task>>

\* 154-157
WorkerCleanup(o) ==
  /\ worker_pc[o] = "cleanup"
  /\ current_task' = IF current_task # 0 /\ task[current_task].task_id = task[o].task_id
                     THEN 0 ELSE current_task
  /\ worker_pc' = [worker_pc EXCEPT ![o] = "done"]
  /\ UNCHANGED <<tailerVars, forumVars, startVars, researchVars, utilVars, gateVars, report_agent, task, created,
                 gen_pc, gen_reply, report_files, clock,
                 cancelled, failed_task>>

\* 388-415
cancel_task(task_id) ==
  /\ current_task # 0
  /\ task[current_task].task_id = task_id
  /\ IF task[current_task].status = "running"
     THEN /\ task' = [task EXCEPT ![current_task] =
                        update_status(@, "cancelled", 0, "Task cancelled by user")]
          /\ cancelled' = cancelled \cup {current_task}
     ELSE UNCHANGED <<task, cancelled>>
  /\ current_task' = 0
  /\ failed_task' = IF failed_task = current_task THEN 0 ELSE failed_task
  /\ UNCHANGED <<tailerVars, forumVars, startVars, researchVars, utilVars, gateVars, report_agent, created,
                 worker_pc, gen_pc, gen_reply, report_files, clock>>

\* 255-286: the reply to a poll of progress/<task_id>
get_progress(task_id) ==
  IF current_task = 0 \/ task[current_task].task_id # task_id
  THEN [code |-> 200, task_id |-> task_id, status |-> "completed",
        error_message |-> "", html |-> 0]
  ELSE to_dict(task[current_task])

\* 289-316: the reply to a request of result/<task_id>
get_result(task_id) ==
  IF current_task = 0 \/ task[current_task].task_id # task_id
  THEN [NoReply EXCEPT !.code = 404, !.task_id = task_id]
  ELSE IF task[current_task].status # "completed"
  THEN [to_dict(task[current_task]) EXCEPT !.code = 400]
  ELSE [to_dict(task[current_task]) EXCEPT !.html = task[current_task].html_content]

\* the report engine is initialized once; the engines publish one report each
\* after the baseline; forum.log may be removed and created again
NextReport ==
  \/ \E ok \in BOOLEAN : initialize_report_engine(ok)
  \/ \E a \in AppSet : report_agent /\ md_count[a] = 0 /\ WriteReport(a)
  \/ RemoveForumLog
  \/ CreateForumLog
  \/ Tick
  \/ \E c \in Callers : GenerateCheck(c)
  \/ \E c \in Callers : GenerateSpawn(c)
  \/ \E o \in TaskObjs : WorkerStart(o)
  \/ \E o \in TaskObjs : WorkerCheck(o)
  \/ \E o \in TaskObjs : WorkerLoad(o)
  \/ \E o \in TaskObjs, outcome \in GenerateOutcomes : WorkerGenerate(o, outcome)
  \/ \E o \in TaskObjs : WorkerResult(o)
  \/ \E o \in TaskObjs : WorkerCleanup(o)
  \/ \E id \in TaskIds : cancel_task(id)

SpecReport == Init /\ [][NextReport]_vars

\* a worker thread is between its start and its end
Generating(o) == worker_pc[o] \notin {"none", "done"}

\* C11: at most one worker thread is generating a report at any time, and a
\* GenerateReport request made while a task is running is rejected as
\* already_running and spawns no worker.
SingleTask ==
  /\ [](Cardinality({o \in TaskObjs : Generating(o)}) <= 1)
  /\ [][\A c \in Callers :
          (GenerateCheck(c) /\ current_task # 0 /\ task[current_task].status = "running")
            => /\ gen_reply'[c] = "already_running"
               /\ gen_pc'[c] = "idle"
               /\ worker_pc' = worker_pc]_vars

\* C17: a cancel of a running task moves it from running to cancelled, and
\* from then on the output of its worker is discarded: no later step sets the
\* task to running or completed, exposes its HTML as a result, or persists a
\* report file for it.
CancelDiscards ==
  /\ [][\A id \in TaskIds :
          (/\ cancel_task(id)
           /\ current_task # 0
           /\ task[current_task].task_id = id
           /\ task[current_task].status = "running")
            => task'[current_task].status = "cancelled"]_vars
  /\ [][\A o \in cancelled :
          /\ task'[o].status \notin {"running", "completed"}
          /\ o \notin report_files => o \notin report_files'
          /\ \A id \in TaskIds : get_result(id)'.html # o]_vars

\* C18: once a task has failed (readiness lost inside the worker, or an
\* exception while loading, generating or saving), a poll of
\* progress/<task_id> for it returns status error with the error message,
\* until the next GenerateReport request.
FailedTaskPolls ==
  failed_task # 0 =>
    /\ get_progress(task[failed_task].task_id).status = "error"
    /\ get_progress(task[failed_task].task_id).error_message # ""

(***************************************************************************)
(* The research nodes: the text of an LLM output is a sequence of tokens   *)
(*   word     a run of prose without brackets                              *)
(*   fence_json  the opening of a json code fence                          *)
(*   fence       three backquotes                                          *)
(*   { } [ ] ,                                                             *)
(*   num      42                                                           *)
(*   kvQ      "search_query": "q"       kvE  "search_query": ""            *)
(*   kvR      "reasoning": "r"                                             *)
(*   kvP      "paragraph_latest_state": "p"                                *)
(*   kvU      "updated_paragraph_latest_state": "u"                        *)
(* (utils/text_processing.py; nodes/search_node.py; nodes/summary_node.py) *)
(***************************************************************************)
Members == {"kvQ", "kvE", "kvR", "kvP", "kvU"}
Fences == {"fence_json", "fence"}
NoValue == [ok |-> FALSE, next |-> 0, kind |-> "none", members |-> {}]

\* json.loads on the token text: the value that starts at position i
RECURSIVE ParseValue(_, _)
RECURSIVE ParseMembers(_, _, _)
RECURSIVE ParseElems(_, _)
ParseValue(t, i) ==
  IF i > Len(t) THEN NoValue
  ELSE IF t[i] = "num" THEN [ok |-> TRUE, next |-> i + 1, kind |-> "int", members |-> {}]
  ELSE IF t[i] = "{"
       THEN IF i + 1 <= Len(t) /\ t[i + 1] = "}"
            THEN [ok |-> TRUE, next |-> i + 2, kind |-> "dict", members |-> {}]
            ELSE ParseMembers(t, i + 1, {})
  ELSE IF t[i] = "["
       THEN IF i + 1 <= Len(t) /\ t[i + 1] = "]"
            THEN [ok |-> TRUE, next |-> i + 2, kind |-> "list", members |-> {}]
            ELSE ParseElems(t, i + 1)
  ELSE NoValue

ParseMembers(t, i, acc) ==
  IF i + 1 > Len(t) \/ t[i] \notin Members THEN NoValue
  ELSE IF t[i + 1] = "}"
       THEN [ok |-> TRUE, next |-> i + 2, kind |-> "dict", members |-> acc \cup {t[i]}]
  ELSE IF t[i + 1] = "," THEN ParseMembers(t, i + 2, acc \cup {t[i]})
  ELSE NoValue

ParseElems(t, i) ==
  LET v == ParseValue(t, i)
  IN IF ~v.ok \/ v.next > Len(t) THEN NoValue
     ELSE IF t[v.next] = "]"
          THEN [ok |-> TRUE, next |-> v.next + 1, kind |-> "list", members |-> {}]
     ELSE IF t[v.next] = "," THEN ParseElems(t, v.next + 1)
     ELSE NoValue

loads(t) ==
  LET v == ParseValue(t, 1)
  IN IF v.ok /\ v.next = Len(t) + 1 THEN v ELSE NoValue

\* text_processing.py 12-27
clean_json_tags(text) == SelectSeq(text, LAMBDA x : x \notin Fences)

\* text_processing.py 48-82: the text from the first { or [ on; the patterns
\* of 73-77 need a bracket as well
remove_reasoning_from_output(text) ==
  IF \E i \in 1..Len(text) : text[i] \in {"{", "["}
  THEN LET json_start == CHOOSE i \in 1..Len(text) :
                           /\ text[i] \in {"{", "["}
                           /\ \A j \in 1..(i - 1) : text[j] \notin {"{", "["}
       IN SubSeq(text, json_start, Len(text))
  ELSE text

\* text_processing.py 147-148: a comma before a closing bracket is removed
RECURSIVE DropTrailingCommas(_)
DropTrailingCommas(text) ==
  IF text = <<>> THEN <<>>
  ELSE IF Head(text) = "," /\ Len(text) > 1 /\ text[2] \in {"}", "]"}
       THEN DropTrailingCommas(Tail(text))
       ELSE <<Head(text)>> \o DropTrailingCommas(Tail(text))

\* text_processing.py 209-216: the innermost objects, joined with commas
RECURSIVE FindObjects(_, _)
FindObjects(text, i) ==
  IF i > Len(text) THEN <<>>
  ELSE IF text[i] = "{" /\ \E j \in (i + 1)..Len(text) :
                              /\ text[j] = "}"
                              /\ \A k \in (i + 1)..(j - 1) : text[k] \notin {"{", "}"}
       THEN LET j == CHOOSE j \in (i + 1)..Len(text) :
                       /\ text[j] = "}"
                       /\ \A k \in (i + 1)..(j - 1) : text[k] \notin {"{", "}"}
                more == FindObjects(text, j + 1)
            IN SubSeq(text, i, j) \o (IF more = <<>> THEN <<>> ELSE <<",">> \o more)
       ELSE FindObjects(text, i + 1)

\* text_processing.py 198-219
fix_aggressive_json(text) == <<"[">> \o FindObjects(text, 1) \o <<"]">>

Repeat(tok, n) == [i \in 1..n |-> tok]
Surplus(text, open, close) ==
  IF CountTok(text, open) > CountTok(text, close)
  THEN CountTok(text, open) - CountTok(text, close) ELSE 0

\* text_processing.py 136-195
fix_incomplete_json(text) ==
  LET t1 == DropTrailingCommas(text)
      t2 == IF t1 # <<>> /\ Head(t1) = "{" THEN <<"[">> \o t1 \o <<"]">> ELSE t1
      t3 == IF t2 # <<>> /\ t2[Len(t2)] = "}" THEN <<"[">> \o t2 \o <<"]">> ELSE t2
      t4 == t3 \o Repeat("}", Surplus(t3, "{", "}"))
      t5 == t4 \o Repeat("]", Surplus(t4, "[", "]"))
  IN IF loads(t1).ok THEN t1
     ELSE IF loads(t5).ok THEN t5
     ELSE fix_aggressive_json(t5)

\* text_processing.py 114-124: the span from the first opening to the last
\* closing bracket
Span(text, open, close) ==
  IF \E i, j \in 1..Len(text) : i < j /\ text[i] = open /\ text[j] = close
  THEN LET i == CHOOSE i \in 1..Len(text) :
                  /\ text[i] = open
                  /\ \A k \in 1..(i - 1) : text[k] # open
           j == CHOOSE j \in 1..Len(text) :
                  /\ text[j] = close
                  /\ \A k \in (j + 1)..Len(text) : text[k] # close
       IN IF i < j THEN SubSeq(text, i, j) ELSE <<>>
  ELSE <<>>

ErrorDict == [ok |-> TRUE, next |-> 0, kind |-> "dict", members |-> {"error"}]

\* text_processing.py 85-133
extract_clean_response(text) ==
  LET cleaned_text == remove_reasoning_from_output(clean_json_tags(text))
      fixed_text == fix_incomplete_json(cleaned_text)
  IN IF loads(cleaned_text).ok THEN loads(cleaned_text)
     ELSE IF loads(fixed_text).ok THEN loads(fixed_text)
     ELSE IF loads(Span(cleaned_text, "{", "}")).ok THEN loads(Span(cleaned_text, "{", "}"))
     ELSE IF loads(Span(cleaned_text, "[", "]")).ok THEN loads(Span(cleaned_text, "[", "]"))
     ELSE ErrorDict

(***************************************************************************)
(* The research nodes (MediaEngine/nodes) and the research run             *)
(* (QueryEngine/agent.py 141-424)                                          *)
(***************************************************************************)
MAX_REFLECTIONS == 2

\* search_node.py 141-151
_get_default_search_query ==
  [search_query |-> "Related topic research",
   reasoning |-> "Using default search query due to parsing failure"]

\* search_node.py 276-286
_get_default_reflection_query ==
  [search_query |-> "Deep research supplementary information",
   reasoning |-> "Using default reflection search query due to parsing failure"]

\* search_node.py 81-139 and 216-274: the two process_output methods differ in
\* the default only.  A result that is no dict makes result.get raise, and
\* the outer handler returns the default.
SearchOutput(output, default) ==
  LET cleaned_output == clean_json_tags(remove_reasoning_from_output(output))
      extracted == extract_clean_response(cleaned_output)
      fixed_json == fix_incomplete_json(cleaned_output)
      result == IF loads(cleaned_output).ok THEN loads(cleaned_output)
                ELSE IF extracted.kind = "dict" /\ "error" \in extracted.members
                     THEN loads(fixed_json)
                     ELSE extracted
  IN IF ~result.ok \/ result.kind # "dict" THEN default
     ELSE IF "kvQ" \notin result.members THEN default
     ELSE [search_query |-> "q",
           reasoning |-> IF "kvR" \in result.members THEN "r" ELSE ""]

FirstSearchNode_process_output(output) == SearchOutput(output, _get_default_search_query)

ReflectionNode_process_output_Shared(output) == SearchOutput(output, _get_default_search_query)

ReflectionNode_process_output(output) == SearchOutput(output, _get_default_reflection_query)

\* summary_node.py 118-168 and 286-336: the content of the member named key,
\* or the cleaned text
SummaryOutput(output, key, content) ==
  LET cleaned_output == clean_json_tags(remove_reasoning_from_output(output))
      fixed_json == fix_incomplete_json(cleaned_output)
      result == IF loads(cleaned_output).ok THEN loads(cleaned_output) ELSE loads(fixed_json)
  IN IF ~result.ok THEN cleaned_output
     ELSE IF result.kind = "dict" /\ key \in result.members THEN content
     ELSE cleaned_output

FirstSummaryNode_process_output(output) == SummaryOutput(output, "kvP", <<"p">>)
ReflectionSummaryNode_process_output(output) == SummaryOutput(output, "kvU", <<"u">>)

\* the outputs an LLM call of a search or reflection node may return
SearchTexts ==
  { <<"{", "kvQ", ",", "kvR", "}">>,
    <<"fence_json", "{", "kvQ", "}", "fence">>,
    <<"word", "{", "kvQ", ",", "}">>,
    <<"{", "kvQ">>,
    <<"[", "{", "kvQ", "}", "]">>,
    <<"{", "kvR", "}">>,
    <<"{", "kvE", ",", "kvR", "}">>,
    <<"num">>,
    <<"word">>,
    <<>> }

\* the outputs an LLM call of a summary node may return
SummaryTexts ==
  { <<"{", "kvP", "}">>,
    <<"{", "kvU", "}">>,
    <<"fence_json", "{", "kvU", ",", "}", "fence">>,
    <<"{", "kvP">>,
    <<"[", "{", "kvP", "}", "]">>,
    <<"word">> }

\* an LLM call returns a text or raises (the retries are exhausted)
LLMResult(texts) ==
  {[raised |-> TRUE, text |-> <<>>]} \cup {[raised |-> FALSE, text |-> t] : t \in texts}

\* a paragraph of the state as the report structure creates it
Paragraph ==
  [latest_summary |-> <<>>, reflection_count |-> 0, search_history |-> <<>>,
   is_completed |-> FALSE]

\* Research.add_search_results
add_search_results(p, query) == [p EXCEPT !.search_history = Append(@, query)]

\* Research.increment_reflection
increment_reflection(p) == [p EXCEPT !.reflection_count = @ + 1]

\* agent.py 182-195: the report structure gives the paragraphs of the run
_generate_report_structure(n) ==
  /\ research_pc = "structure"
  /\ paragraphs' = [i \in 1..n |-> Paragraph]
  /\ paragraph_index' = 0
  /\ research_pc' = IF n = 0 THEN "final" ELSE "first_search"
  /\ UNCHANGED <<tailerVars, forumVars, startVars, gateVars, taskVars, utilVars, reflection_i,
                 research_error>>

\* an exception of a node leaves research() through its handler (176-180)
Raise(cause) ==
  /\ research_pc' = "failed"
  /\ research_error' = cause

\* agent.py 219-287 with FirstSearchNode.run (search_node.py 45-79); the
\* search tools return an empty result on failure (tools/search.py 96)
FirstSearch(r) ==
  /\ research_pc = "first_search"
  /\ IF r.raised
     THEN Raise("llm") /\ UNCHANGED paragraphs
     ELSE /\ paragraphs' =
               [paragraphs EXCEPT ![paragraph_index + 1] =
                  add_search_results(@, FirstSearchNode_process_output(r.text).search_query)]
          /\ research_pc' = "first_summary"
          /\ UNCHANGED research_error
  /\ UNCHANGED <<tailerVars, forumVars, startVars, gateVars, taskVars, utilVars, paragraph_index,
                 reflection_i>>

\* the loop test of 311
reflection_loop_OneMore(i) == i <= MAX_REFLECTIONS

reflection_loop(i) == i < MAX_REFLECTIONS

\* agent.py 211-215 and the loop of 201: the paragraph is completed
NextParagraph ==
  /\ paragraphs' = [paragraphs EXCEPT ![paragraph_index + 1].is_completed = TRUE]
  /\ paragraph_index' = paragraph_index + 1
  /\ research_pc' = IF paragraph_index + 1 < Len(paragraphs) THEN "first_search" ELSE "final"

\* agent.py 289-305 with FirstSummaryNode.mutate_state (summary_node.py 170-199)
FirstSummary(r) ==
  /\ research_pc = "first_summary"
  /\ IF r.raised
     THEN Raise("llm") /\ UNCHANGED <<paragraphs, reflection_i>>
     ELSE /\ paragraphs' =
               [paragraphs EXCEPT ![paragraph_index + 1].latest_summary =
                  FirstSummaryNode_process_output(r.text)]
          /\ reflection_i' = 0
          /\ research_pc' = "reflection"
          /\ UNCHANGED research_error
  /\ UNCHANGED <<tailerVars, forumVars, startVars, gateVars, taskVars, utilVars, paragraph_index>>

\* agent.py 311-378 with ReflectionNode.run (search_node.py 180-214), or the
\* end of the loop
Reflection(r) ==
  /\ research_pc = "reflection"
  /\ IF ~reflection_loop(reflection_i)
     THEN NextParagraph /\ UNCHANGED <<reflection_i, research_error>>
     ELSE IF r.raised
     THEN Raise("llm") /\ UNCHANGED <<paragraphs, paragraph_index, reflection_i>>
     ELSE /\ paragraphs' =
               [paragraphs EXCEPT ![paragraph_index + 1] =
                  add_search_results(@, ReflectionNode_process_output(r.text).search_query)]
          /\ research_pc' = "reflection_summary"
          /\ UNCHANGED <<paragraph_index, reflection_i, research_error>>
  /\ UNCHANGED <<tailerVars, forumVars, startVars, gateVars, taskVars, utilVars>>

\* agent.py 380-396 with ReflectionSummaryNode.mutate_state (338-368)
ReflectionSummary(r) ==
  /\ research_pc = "reflection_summary"
  /\ IF r.raised
     THEN Raise("llm") /\ UNCHANGED <<paragraphs, reflection_i>>
     ELSE /\ paragraphs' =
               [paragraphs EXCEPT ![paragraph_index + 1] =
                  increment_reflection(
                    [@ EXCEPT !.latest_summary =
                       ReflectionSummaryNode_process_output(r.text)])]
          /\ reflection_i' = reflection_i + 1
          /\ research_pc' = "reflection"
          /\ UNCHANGED research_error
  /\ UNCHANGED <<tailerVars, forumVars, startVars, gateVars, taskVars, utilVars, paragraph_index>>

\* agent.py 398-424: a failing formatting call falls back to the manual format
_generate_final_report ==
  /\ research_pc = "final"
  /\ research_pc' = "save"
  /\ UNCHANGED <<tailerVars, forumVars, startVars, gateVars, taskVars, utilVars, paragraphs,
                 paragraph_index, reflection_i, research_error>>

\* agent.py 426-447
_save_report(ok) ==
  /\ research_pc = "save"
  /\ IF ok
     THEN research_pc' = "done" /\ UNCHANGED research_error
     ELSE Raise("persistence")
  /\ UNCHANGED <<tailerVars, forumVars, startVars, gateVars, taskVars, utilVars, paragraphs,
                 paragraph_index, reflection_i>>

NextResearch ==
  \/ \E n \in 0..MaxParagraphs : _generate_report_structure(n)
  \/ \E r \in LLMResult(SearchTexts) : FirstSearch(r)
  \/ \E r \in LLMResult(SummaryTexts) : FirstSummary(r)
  \/ \E r \in LLMResult(SearchTexts) : Reflection(r)
  \/ \E r \in LLMResult(SummaryTexts) : ReflectionSummary(r)
  \/ _generate_final_report
  \/ \E ok \in BOOLEAN : _save_report(ok)

SpecResearch == Init /\ [][NextResearch]_vars

\* the paragraph loop of the run is over: the final report is being formatted
\* or saved, or the save has been left
RunEnded ==
  \/ research_pc \in {"final", "save", "done"}
  \/ research_pc = "failed" /\ research_error = "persistence"

Failure == [raised |-> TRUE, text |-> <<>>]

\* C19: a failure of the LLM call inside a research node (first search,
\* reflection, first summary, reflection summary) is turned into the default
\* output of the node and the run continues with the next step: the search
\* nodes record their default query, the run moves on, and a run is given up
\* only by a persistence error when the final report is saved.
LLMFailureDefault ==
  /\ [][FirstSearch(Failure) =>
          /\ research_pc' = "first_summary"
          /\ paragraphs'[paragraph_index + 1].search_history = <<"Related topic research">>]_vars
  /\ [][FirstSummary(Failure) => research_pc' = "reflection"]_vars
  /\ [][(Reflection(Failure) /\ reflection_loop(reflection_i)) =>
          /\ research_pc' = "reflection_summary"
          /\ Len(paragraphs'[paragraph_index + 1].search_history) =
               Len(paragraphs[paragraph_index + 1].search_history) + 1]_vars
  /\ [][ReflectionSummary(Failure) => research_pc' = "reflection"]_vars
  /\ [](research_pc = "failed" => research_error = "persistence")

\* the text holds no search_query member, or is valid JSON of another shape
\* than an object
NoQuery(text) ==
  \/ \A i \in 1..Len(text) : text[i] # "kvQ"
  \/ loads(text).ok /\ loads(text).kind # "dict"

NoMember(text, key) == \A i \in 1..Len(text) : text[i] # key

\* the outputs of the four nodes on the sample outputs of the LLM
FirstSearchOutputs == [t \in SearchTexts |-> FirstSearchNode_process_output(t)]
ReflectionOutputs == [t \in SearchTexts |-> ReflectionNode_process_output(t)]
FirstSummaryOutputs == [t \in SummaryTexts |-> FirstSummaryNode_process_output(t)]
ReflectionSummaryOutputs == [t \in SummaryTexts |-> ReflectionSummaryNode_process_output(t)]

\* the step is the first search, or the reflection, of the current paragraph
\* on the LLM output t
SearchStepOn(node, outputs, t) ==
  /\ research_pc = node
  /\ research_pc' # "failed"
  /\ paragraphs'[paragraph_index + 1].search_history =
       Append(paragraphs[paragraph_index + 1].search_history, outputs[t].search_query)

\* the step is the first summary, or the reflection summary, of the current
\* paragraph on the LLM output t
SummaryStepOn(node, outputs, t) ==
  /\ research_pc = node
  /\ research_pc' # "failed"
  /\ paragraphs'[paragraph_index + 1].latest_summary = outputs[t]

\* a step of a node on an LLM output: the run is not given up and goes on to
\* the next step of the paragraph loop; an output without a usable query gives
\* the default query (first for the first search, reflection for the
\* reflection node), and an output without the summary member gives the
\* cleaned text
ParseStep(first, reflection) ==
  /\ \A t \in SearchTexts :
       /\ SearchStepOn("first_search", FirstSearchOutputs, t) =>
            /\ research_pc' = "first_summary"
            /\ NoQuery(t) =>
                 paragraphs'[paragraph_index + 1].search_history = <<first>>
       /\ (SearchStepOn("reflection", ReflectionOutputs, t) /\ reflection_loop(reflection_i)) =>
            /\ research_pc' = "reflection_summary"
            /\ NoQuery(t) =>
                 paragraphs'[paragraph_index + 1].search_history =
                   Append(paragraphs[paragraph_index + 1].search_history, reflection)
  /\ \A t \in SummaryTexts :
       /\ SummaryStepOn("first_summary", FirstSummaryOutputs, t) =>
            /\ research_pc' = "reflection"
            /\ NoMember(t, "kvP") =>
                 paragraphs'[paragraph_index + 1].latest_summary =
                   clean_json_tags(remove_reasoning_from_output(t))
       /\ SummaryStepOn("reflection_summary", ReflectionSummaryOutputs, t) =>
            /\ research_pc' = "reflection"
            /\ NoMember(t, "kvU") =>
                 paragraphs'[paragraph_index + 1].latest_summary =
                   clean_json_tags(remove_reasoning_from_output(t))
  /\ research_pc \in {"first_search", "first_summary", "reflection", "reflection_summary"} =>
       \/ research_pc' # "failed"
       \/ research_error' = "llm"

\* C20 as stated: no LLM output gives up the run; for a malformed or wrongly
\* shaped output the search and the reflection node both return the default
\* query 'Related topic research', the summary nodes return the text, and the
\* paragraph loop proceeds.
ParseFailureSharedDefault ==
  [][ParseStep("Related topic research", "Related topic research")]_vars

\* C20: no LLM output gives up the run; for a malformed or wrongly shaped
\* output the first-search node returns the default query 'Related topic
\* research', the reflection node returns its own default query 'Deep research
\* supplementary information', the summary nodes return the text, and the
\* paragraph loop proceeds.
ParseFailureDefault ==
  [][ParseStep("Related topic research", "Deep research supplementary information")]_vars

\* a run has completed in which the first search of the first paragraph and
\* a reflection of it had no usable output, and the last summary was the text
ParseFailureDefaultWitness ==
  /\ research_pc = "done"
  /\ Len(paragraphs) >= 1
  /\ paragraphs[1].search_history =
       <<"Related topic research", "q", "Deep research supplementary information">>
  /\ paragraphs[1].latest_summary = <<"word">>

(***************************************************************************)
(* The retry envelope (utils/retry_helper.py).  A delay is a fraction       *)
(* <<numerator, denominator>> of seconds: the backoff factors 1.6 and 1.5   *)
(* are the fractions 8/5 and 3/2.                                           *)
(***************************************************************************)
\* retry_helper.py 228-233
LLM_RETRY_CONFIG ==
  [max_retries |-> 6, initial_delay |-> 60, backoff_factor |-> <<2, 1>>, max_delay |-> 600,
   retry_on_exceptions |-> DefaultRetryOn]

\* retry_helper.py 235-240
SEARCH_API_RETRY_CONFIG ==
  [max_retries |-> 5, initial_delay |-> 2, backoff_factor |-> <<8, 5>>, max_delay |-> 25,
   retry_on_exceptions |-> DefaultRetryOn]

\* retry_helper.py 242-247
DB_RETRY_CONFIG ==
  [max_retries |-> 5, initial_delay |-> 1, backoff_factor |-> <<3, 2>>, max_delay |-> 10,
   retry_on_exceptions |-> DefaultRetryOn]

\* a configuration a caller builds with its own retry_on_exceptions (16-52):
\* RetryConfig(max_retries = 2, retry_on_exceptions = (RequestException,))
NetworkRetryConfig ==
  [max_retries |-> 2, initial_delay |-> 1, backoff_factor |-> <<2, 1>>, max_delay |-> 60,
   retry_on_exceptions |-> {"RequestException"}]

RetryConfigs ==
  {DEFAULT_RETRY_CONFIG, LLM_RETRY_CONFIG, SEARCH_API_RETRY_CONFIG, DB_RETRY_CONFIG,
   NetworkRetryConfig}

\* the exceptions a call of the wrapped function may raise; both are
\* subclasses of Exception
Exceptions == {"RequestException", "ValueError"}

\* an except clause naming the classes of config.retry_on_exceptions catches
\* the exception e (82, 168)
Catches_Any(config, e) == TRUE

Catches(config, e) == e \in config.retry_on_exceptions \/ "Exception" \in config.retry_on_exceptions

RECURSIVE Pow(_, _)
Pow(b, e) == IF e = 0 THEN 1 ELSE b * Pow(b, e - 1)

\* retry_helper.py 92-95 and 179-182
delay_NextAttempt(config, attempt) ==
  LET n == config.initial_delay * Pow(config.backoff_factor[1], attempt + 1)
      d == Pow(config.backoff_factor[2], attempt + 1)
  IN IF n <= config.max_delay * d THEN <<n, d>> ELSE <<config.max_delay, 1>>

delay(config, attempt) ==
  LET n == config.initial_delay * Pow(config.backoff_factor[1], attempt)
      d == Pow(config.backoff_factor[2], attempt)
  IN IF n <= config.max_delay * d THEN <<n, d>> ELSE <<config.max_delay, 1>>

\* the exception raised by call number call of the wrapped function
Error(type, call) == [type |-> type, call |-> call]

\* a function decorated with with_retry(config) (57-75) or with
\* with_graceful_retry(config, default_return) (141-161) is called
wrapper(variant, config) ==
  /\ retry.pc = "idle"
  /\ retry' = [NoRetry EXCEPT !.pc = "loop", !.func = "func", !.variant = variant,
                              !.config = config]
  /\ UNCHANGED <<tailerVars, forumVars, startVars, gateVars, taskVars, researchVars, engineVars, published, template, search_step, forum_lock>>

\* llm_host.py 210: ForumHost._call_qwen_api is decorated with
\* with_graceful_retry(SEARCH_API_RETRY_CONFIG, default_return = {...})
_call_qwen_api ==
  /\ retry.pc = "idle"
  /\ retry' = [NoRetry EXCEPT !.pc = "loop", !.func = "_call_qwen_api",
                              !.variant = "graceful", !.config = SEARCH_API_RETRY_CONFIG]
  /\ UNCHANGED <<tailerVars, forumVars, startVars, gateVars, taskVars, researchVars, engineVars, published, template, search_step, forum_lock>>

\* the end of the wrapper on an exception e it does not retry: with_retry
\* raises it (89, 105), with_graceful_retry returns default_return (176, 193)
GiveUp(e) ==
  IF retry.variant = "strict"
  THEN [retry EXCEPT !.pc = "raised", !.last_exception = e,
                     !.outcomes = Append(@, e.type),
                     !.result = [kind |-> "raise", value |-> e]]
  ELSE [retry EXCEPT !.pc = "returned", !.last_exception = e,
                     !.outcomes = Append(@, e.type),
                     !.result = [kind |-> "return", value |-> "default_return"]]

\* one iteration of the loop of the wrapper (75-105, 161-193): the function
\* is called and returns or raises
Attempt(outcome) ==
  /\ retry.pc = "loop"
  /\ retry.func = "func"
  /\ LET attempt == retry.attempt
         e == Error(outcome, Len(retry.outcomes) + 1)
     IN retry' =
          IF outcome = "ok"
          THEN [retry EXCEPT !.pc = "returned", !.outcomes = Append(@, "ok"),
                             !.result = [kind |-> "return", value |-> "result"]]
          ELSE IF Catches(retry.config, outcome)
          THEN IF attempt = retry.config.max_retries
               THEN GiveUp(e)
               ELSE [retry EXCEPT !.last_exception = e,
                                  !.outcomes = Append(@, outcome),
                                  !.delays = Append(@, delay(retry.config, attempt)),
                                  !.attempt = attempt + 1]
          ELSE GiveUp(e)
  /\ UNCHANGED <<tailerVars, forumVars, startVars, gateVars, taskVars, researchVars, engineVars, published, template, search_step, forum_lock>>

\* llm_host.py 211-237 inside the wrapper: the completion is requested once;
\* the function returns a dict for a reply, for a reply without choices and
\* for every exception of the request, and so never raises into the wrapper
QwenAttempt(completion) ==
  /\ retry.pc = "loop"
  /\ retry.func = "_call_qwen_api"
  /\ retry' = [retry EXCEPT
                 !.pc = "returned",
                 !.outcomes = Append(@, "ok"),
                 !.completions = Append(@, completion),
                 !.result = [kind |-> "return",
                             value |-> CASE completion = "ok" -> "success"
                                         [] completion = "no_choices" -> "format_abnormal"
                                         [] OTHER -> "call_exception"]]
  /\ UNCHANGED <<tailerVars, forumVars, startVars, gateVars, taskVars, researchVars, engineVars, published, template, search_step, forum_lock>>

NextRetry ==
  \/ \E variant \in {"strict", "graceful"}, config \in RetryConfigs : wrapper(variant, config)
  \/ _call_qwen_api
  \/ \E outcome \in {"ok"} \cup Exceptions : Attempt(outcome)
  \/ \E completion \in {"ok", "no_choices", "error"} : QwenAttempt(completion)

SpecRetry == Init /\ [][NextRetry]_vars

\* the exception type is not retried under the configuration: it is none of
\* the listed classes and Exception is not listed
Fatal(config, type) ==
  /\ type # "ok"
  /\ type \notin config.retry_on_exceptions
  /\ "Exception" \notin config.retry_on_exceptions

\* C21: the wrapped function is called at most max_retries + 1 times and never
\* after its first success or after a fatal error; when the envelope ends, a
\* success gives the result of the function, exhaustion (max_retries + 1
\* failed calls) makes the strict variant raise the last error and the
\* graceful variant return the default, and a fatal error is raised by the
\* strict variant and turned into the default by the graceful one.
RetryEnvelope ==
  retry.func = "func" =>
    LET calls == Len(retry.outcomes)
        last == retry.outcomes[calls]
    IN /\ calls <= retry.config.max_retries + 1
       /\ \A i \in 1..(calls - 1) :
            retry.outcomes[i] # "ok" /\ ~Fatal(retry.config, retry.outcomes[i])
       /\ retry.pc = "loop" =>
            \A i \in 1..calls :
               retry.outcomes[i] # "ok" /\ ~Fatal(retry.config, retry.outcomes[i])
       /\ retry.pc = "loop" => calls <= retry.config.max_retries
       /\ retry.pc \in {"returned", "raised"} =>
            /\ calls >= 1
            /\ last = "ok" => retry.result = [kind |-> "return", value |-> "result"]
            /\ (last # "ok" /\ ~Fatal(retry.config, last)) =>
                  calls = retry.config.max_retries + 1
            /\ last # "ok" =>
                  IF retry.variant = "strict"
                  THEN retry.result = [kind |-> "raise", value |-> Error(last, calls)]
                  ELSE retry.result = [kind |-> "return", value |-> "default_return"]

\* the graceful envelope has turned a fatal error of the second call into the
\* default
RetryEnvelopeWitness ==
  /\ retry.func = "func"
  /\ retry.pc = "returned"
  /\ retry.variant = "graceful"
  /\ retry.outcomes = <<"RequestException", "ValueError">>
  /\ retry.result.value = "default_return"

\* C22: a completion of the FORUM_HOST role that fails is retried under the
\* strict LLM profile: while fewer than 1 + 6 requests have failed the call is
\* not over, the first retry follows a delay of 60 s, and after the last
\* failure the error is raised to the caller.
StrictLLMProfile ==
  (/\ retry.func = "_call_qwen_api"
   /\ retry.completions # <<>>
   /\ \A i \in 1..Len(retry.completions) : retry.completions[i] = "error")
    => /\ Len(retry.completions) < 1 + 6 => retry.pc = "loop"
       /\ Len(retry.completions) >= 2 => retry.delays[1] = <<60, 1>>
       /\ Len(retry.completions) = 1 + 6 => retry.pc = "raised"

\* a/b <= c/d for fractions with positive denominators
FracLeq(x, y) == x[1] * y[2] <= y[1] * x[2]
FracEq(x, y) == x[1] * y[2] = y[1] * x[2]

\* C29: the delay slept before attempt n (the loop index of the wrapper: the
\* first call is attempt 0) is min(initial_delay * backoff_factor^(n-1),
\* max_delay); the delays are non-decreasing in n and never exceed max_delay;
\* under the LLM profile they are 60, 120, 240, 480, 600, 600 seconds.
BackoffDelay ==
  LET c == retry.config
      power(n) == <<c.initial_delay * Pow(c.backoff_factor[1], n - 1),
                    Pow(c.backoff_factor[2], n - 1)>>
      cap == <<c.max_delay, 1>>
  IN /\ Len(retry.delays) = retry.attempt
     /\ \A n \in 1..Len(retry.delays) :
          /\ FracEq(retry.delays[n], IF FracLeq(power(n), cap) THEN power(n) ELSE cap)
          /\ FracLeq(retry.delays[n], cap)
          /\ n > 1 => FracLeq(retry.delays[n - 1], retry.delays[n])
     /\ (c = LLM_RETRY_CONFIG /\ retry.func = "func") =>
          \A n \in 1..Len(retry.delays) :
             retry.delays[n] = <<<<60, 1>>, <<120, 1>>, <<240, 1>>, <<480, 1>>,
                                 <<600, 1>>, <<600, 1>>>>[n]

\* under the LLM profile six delays have been slept, the last two capped
BackoffDelayWitness ==
  /\ retry.config = LLM_RETRY_CONFIG
  /\ retry.func = "func"
  /\ retry.attempt = 6
  /\ retry.delays[6] = <<600, 1>>

(***************************************************************************)
(* app.py: the supervisor of the engine workers.  StartEngine (752-783),    *)
(* the health check (667-717) and the search fan-out (906-952).  A request  *)
(* handler runs in its own thread; nothing serializes two of them.          *)
(***************************************************************************)
\* the child processes of engine a that are alive
Children(a) == orphans[a] + (IF processes[a].process = "live" THEN 1 ELSE 0)

\* start_app with the test of start_streamlit_app (752-775, 565-566)
StartEngine(r, a) ==
  /\ engine_req[r].pc = "idle"
  /\ engine_req[r].app = "none"
  /\ engine_req' =
       [engine_req EXCEPT ![r] =
          IF processes[a].process # "none"
          THEN [pc |-> "idle", app |-> a, success |-> FALSE,
                message |-> "Application already running"]
          ELSE [pc |-> "spawn", app |-> a, success |-> FALSE, message |-> "none"]]
  /\ UNCHANGED <<tailerVars, forumVars, startVars, gateVars, taskVars, researchVars, retry, published, template, search_step, forum_lock,
                 orphans, unlinked, search_reply>>

\* start_streamlit_app after the test (568-633): the script is looked up, the
\* log is deleted and the startup line written, the child is spawned and its
\* handle stored
StartEngineSpawn(r, outcome) ==
  /\ engine_req[r].pc = "spawn"
  /\ LET a == engine_req[r].app
     IN IF outcome = "missing"
        THEN /\ engine_req' = [engine_req EXCEPT ![r].pc = "idle",
                                                 ![r].message = "File does not exist"]
             /\ UNCHANGED <<engine_log, processes, orphans, unlinked>>
        ELSE /\ engine_log' =
                  [engine_log EXCEPT ![a] =
                     StartedLog([process |-> "none", status |-> "stopped"], outcome, @)]
             /\ unlinked' = IF Children(a) > 0 THEN unlinked \cup {a} ELSE unlinked
             /\ IF outcome = "spawn_fail"
                THEN /\ engine_req' = [engine_req EXCEPT ![r].pc = "idle",
                                                         ![r].message = "Startup failed"]
                     /\ UNCHANGED <<processes, orphans>>
                ELSE /\ processes' = [processes EXCEPT
                                        ![a] = [process |-> "live", status |-> "starting"]]
                     /\ orphans' = [orphans EXCEPT ![a] = Children(a)]
                     /\ engine_req' = [engine_req EXCEPT ![r].pc = "wait",
                                                         ![r].success = TRUE,
                                                         ![r].message = "starting"]
  /\ UNCHANGED <<appended, truncs, truncated, monitorVars, forumVars, threadVars, stopVars,
                 histVars, system_state, forum_status, req_pc, req_ok, req_result, starts,
                 started_by, gateVars, taskVars, researchVars, retry, published, template, search_step, forum_lock, search_reply>>

\* wait_for_app_startup(app_name, 15) and the reply of start_app (691-717,
\* 777-783)
StartEngineWait(r, outcome) ==
  /\ engine_req[r].pc = "wait"
  /\ LET a == engine_req[r].app
         info == processes[a]
     IN IF info.process = "none"
        THEN /\ engine_req' = [engine_req EXCEPT ![r].pc = "idle",
                                                 ![r].message = "Process stopped"]
             /\ UNCHANGED processes
        ELSE IF info.process = "exited" \/ outcome = "died"
        THEN /\ engine_req' = [engine_req EXCEPT ![r].pc = "idle",
                                                 ![r].message = "Process startup failed"]
             /\ processes' = [processes EXCEPT ![a].process = "exited"]
        ELSE IF outcome = "ok"
        THEN /\ engine_req' = [engine_req EXCEPT ![r].pc = "idle",
                                                 ![r].message = "Startup successful"]
             /\ processes' = [processes EXCEPT ![a].status = "running"]
        ELSE /\ engine_req' = [engine_req EXCEPT ![r].pc = "idle",
                                                 ![r].message = "Startup timeout"]
             /\ UNCHANGED processes
  /\ UNCHANGED <<tailerVars, forumVars, system_state, forum_status, req_pc, req_ok,
                 req_result, starts, started_by, gateVars, taskVars, researchVars, retry, published, template, search_step, forum_lock,
                 orphans, unlinked, search_reply>>

\* the child an engine's handle names exits
ChildExit(a) ==
  /\ processes[a].process = "live"
  /\ processes' = [processes EXCEPT ![a].process = "exited"]
  /\ UNCHANGED <<tailerVars, forumVars, system_state, forum_status, req_pc, req_ok,
                 req_result, starts, started_by, gateVars, otherVars>>

\* check_app_status (667-689) on one entry of processes; health is the answer
\* of the health request
CheckedStatus(info, health) ==
  IF info.process = "none" THEN info
  ELSE IF info.process = "live"
       THEN [info EXCEPT !.status = IF health = "200" THEN "running" ELSE "starting"]
       ELSE [process |-> "none", status |-> "stopped"]

HealthAnswers == [AppSet -> {"200", "fail"}]

\* get_status (741-750) calls check_app_status
check_app_status(health) ==
  /\ processes' = [a \in AppSet |-> CheckedStatus(processes[a], health[a])]
  /\ processes' # processes
  /\ UNCHANGED <<tailerVars, forumVars, system_state, forum_status, req_pc, req_ok,
                 req_result, starts, started_by, gateVars, otherVars>>

\* the ports of the search endpoints (923)
api_ports == AppSet

\* search (906-952): the entries of processes, the forum's among them, whose
\* status is running after the health check; a name without a port raises
\* inside the loop and gets a failure result
search(query, health) ==
  /\ IF query = ""
     THEN /\ search_reply' = [NoSearch EXCEPT !.message = "Search query cannot be empty"]
          /\ UNCHANGED processes
     ELSE LET checked == [a \in AppSet |-> CheckedStatus(processes[a], health[a])]
              running_apps == {a \in AppSet : checked[a].status = "running"}
                                \cup (IF forum_status = "running" THEN {"forum"} ELSE {})
          IN /\ processes' = checked
             /\ search_reply' =
                  IF running_apps = {}
                  THEN [NoSearch EXCEPT !.message = "No running applications"]
                  ELSE [success |-> TRUE, message |-> "none",
                        posted |-> running_apps \cap api_ports, results |-> running_apps]
  /\ search_reply' # search_reply \/ processes' # processes
  /\ UNCHANGED <<tailerVars, forumVars, system_state, forum_status, req_pc, req_ok,
                 req_result, starts, started_by, gateVars, taskVars, researchVars, retry, published, template, search_step, forum_lock,
                 engine_req, orphans, unlinked>>

\* start_app for the forum (758-762): start_forum_engine (318-329) starts the
\* monitor unless it runs
StartForum ==
  /\ forum_status = "stopped"
  /\ is_monitoring \/ \E t \in Threads : ~Alive(t)
  /\ IF is_monitoring
     THEN UNCHANGED <<is_monitoring, pc>>
     ELSE /\ is_monitoring' = TRUE
          /\ pc' = [pc EXCEPT ![FreeThread] = "init"]
  /\ forum_status' = "running"
  /\ UNCHANGED <<envVars, file_positions, file_line_counts, is_searching,
                 search_inactive_count, agent_speeches_buffer, is_host_generating,
                 capture, forumVars, idx, pending, current_lines, any_growth,
                 any_shrink, captured_any, stopVars, histVars, system_state, processes,
                 req_pc, req_ok, req_result, starts, started_by, gateVars, otherVars>>

NextSupervisor ==
  \/ StartForum
  \/ \E r \in Starters, a \in AppSet : StartEngine(r, a)
  \/ \E r \in Starters, outcome \in {"ok", "missing", "spawn_fail"} : StartEngineSpawn(r, outcome)
  \/ \E r \in Starters, outcome \in {"ok", "died", "timeout"} : StartEngineWait(r, outcome)
  \/ \E a \in AppSet : ChildExit(a)
  \/ \E health \in HealthAnswers : check_app_status(health)
  \/ \E query \in {"", "q"}, health \in HealthAnswers : search(query, health)

SpecSupervisor == Init /\ [][NextSupervisor]_vars

\* the steps in which the health check runs: check_app_status, search, and
\* the wait of a start request
HealthCheckStep ==
  /\ processes' # processes
  /\ \A r \in Starters : engine_req[r].pc = "spawn" => engine_req'[r].pc = "spawn"
  /\ \A a \in AppSet : processes[a].process = "live" => processes'[a].process # "exited"

\* C23: a search posts the query only to the engines (insight, media, query)
\* whose status is running, and it answers 'No running applications' whenever
\* none of the three engines is running, whatever the status of the forum
SearchFanout ==
  [][search_reply' # search_reply /\ search_reply'.message # "Search query cannot be empty"
       => LET running == {a \in AppSet : processes'[a].status = "running"}
          IN /\ search_reply'.posted \subseteq running
             /\ running = {} => search_reply'.message = "No running applications"]_vars

\* C24: the health check changes the status of an engine only from starting
\* to running and from running to stopped
HealthTransitions ==
  [][HealthCheckStep
       => \A a \in AppSet :
            \/ processes'[a].status = processes[a].status
            \/ processes[a].status = "starting" /\ processes'[a].status = "running"
            \/ processes[a].status = "running" /\ processes'[a].status = "stopped"]_vars

\* C25: an engine has at most one child process at any time, and the log of
\* an engine is never deleted while a child of it is alive
IdempotentStart ==
  \A a \in AppSet : Children(a) <= 1 /\ a \notin unlinked

(***************************************************************************)
(* The forum writer and the readers of forum.log: monitor.py 108-123,       *)
(* utils/forum_reader.py 11-136, llm_host.py 95-130.                        *)
(***************************************************************************)
ContentChars == {"a", "n", "r", BS, NL, CR, SP}

RECURSIVE SeqsUpTo(_, _)
SeqsUpTo(S, n) ==
  IF n = 0 THEN {<<>>}
  ELSE LET shorter == SeqsUpTo(S, n - 1)
       IN shorter \cup {Append(c, x) : c \in shorter, x \in S}

Contents == SeqsUpTo(ContentChars, MaxContent) \ {<<>>}

\* a message is published: write_to_forum_log appends its line
PublishMessage(source, content) ==
  /\ Len(published) < MaxPublished
  /\ forum_log' = forum_log \o write_to_forum_log(content, source)
  /\ published' = Append(published, <<source, content>>)
  /\ UNCHANGED <<tailerVars, forum_exists, startVars, gateVars, taskVars, researchVars,
                 retry, engineVars, template, search_step, forum_lock>>

\* content.replace('\\n', '\n')
RECURSIVE Unescape(_)
Unescape(content) ==
  IF Len(content) >= 2 /\ content[1] = BS /\ content[2] = "n"
  THEN <<NL>> \o Unescape(SubSeq(content, 3, Len(content)))
  ELSE IF content = <<>> THEN <<>>
  ELSE <<Head(content)>> \o Unescape(Tail(content))

\* \s*(.+) on the rest of a line: the blanks are skipped, but one of them is
\* given back when nothing else is left for the group
AfterBlanks(rest) ==
  LET body == LStrip(rest)
  IN IF body # <<>> THEN body
     ELSE IF rest # <<>> THEN <<rest[Len(rest)]>>
     ELSE <<>>

\* re.match(r'\[(\d{2}:\d{2}:\d{2})\]\s*\[(\w+)\]\s*(.+)', line): the speaker
\* and the content of a line, <<>> for a line that does not match
MatchLine(line) ==
  IF Len(line) >= 3 /\ SubSeq(line, 1, 3) = <<"[", TS, "]">>
  THEN LET rest == LStrip(SubSeq(line, 4, Len(line)))
       IN IF Len(rest) >= 3 /\ rest[1] = "[" /\ rest[2] \in Sources /\ rest[3] = "]"
             /\ AfterBlanks(SubSeq(rest, 4, Len(rest))) # <<>>
          THEN <<rest[2], AfterBlanks(SubSeq(rest, 4, Len(rest)))>>
          ELSE <<>>
  ELSE <<>>

\* the speeches the readers return for the lines of the file: the host's by
\* get_latest_host_speech (forum_reader.py 35-39), the engines' by
\* _parse_forum_logs (llm_host.py 111-128)
RECURSIVE ReadForum(_)
ReadForum(lines) ==
  IF lines = <<>> THEN <<>>
  ELSE LET m == MatchLine(Head(lines))
           speech ==
             IF m = <<>> \/ m[1] = "SYSTEM" THEN <<>>
             ELSE IF m[1] = "HOST" THEN << <<m[1], Strip(Unescape(m[2]))>> >>
             ELSE << <<m[1], Unescape(m[2])>> >>
       IN speech \o ReadForum(Tail(lines))

NextRoundTrip ==
  \E source \in AgentSources, content \in Contents : PublishMessage(source, content)

SpecRoundTrip == Init /\ [][NextRoundTrip]_vars

\* C26: the speeches read back from forum.log are the published messages,
\* each with its source and its original content, in publication order
RoundTrip == ReadForum(ForumLines) = published

(***************************************************************************)
(* ReportEngine: template selection.  nodes/template_selection_node.py      *)
(* 29-245 and agent.py 234-272.  A name is the sequence of its words.       *)
(***************************************************************************)
NameWords == {"social", "hotspot", "template"}
TemplateNames == {<<"social", "hotspot">>, <<"hotspot">>, <<"social", "template">>}

\* os.listdir: the template files in some order
TemplateDirs ==
  {d \in SeqsUpTo(TemplateNames, MaxTemplates) : \A i, j \in 1..Len(d) : i # j => d[i] # d[j]}

\* _get_available_templates (188-218)
_get_available_templates(dir) ==
  [i \in 1..Len(dir) |-> [name |-> dir[i], content |-> <<"content of", dir[i]>>]]

\* a in b, for strings as sequences of words
Contains(b, a) ==
  \E i \in 0..(Len(b) - Len(a)) : SubSeq(b, i + 1, i + Len(a)) = a

Without(name, word) == SelectSeq(name, LAMBDA w : w # word)

\* the answers of the LLM: the call raises, the answer is empty, a JSON
\* object with a template_name, or text that is no JSON
LLMAnswers ==
  {[kind |-> "raise", name |-> <<>>], [kind |-> "empty", name |-> <<>>]}
    \cup {[kind |-> k, name |-> n] : k \in {"json", "text"}, n \in SeqsUpTo(NameWords, MaxName)}

\* None, and the exception of the LLM call
None == [template_name |-> <<>>, template_content |-> <<>>, selection_reason |-> "None"]
Raised == [template_name |-> <<>>, template_content |-> <<>>, selection_reason |-> "raise"]
NoFile == [name |-> <<>>, content |-> <<>>]

Selected(t, reason) ==
  [template_name |-> t.name, template_content |-> t.content, selection_reason |-> reason]

\* _get_fallback_template (237-245)
_get_fallback_template ==
  [template_name |-> <<"Freestyle Template">>, template_content |-> <<>>,
   selection_reason |-> "Suitable preset template not found"]

\* the first template of the list among those at the indices hits, NoFile
\* without one
FirstTemplate(available, hits) ==
  IF hits # {} THEN available[CHOOSE i \in hits : \A j \in hits : i <= j] ELSE NoFile

\* _extract_template_from_text (165-186)
_extract_template_from_text(response, available) ==
  LET t == FirstTemplate(available,
             {i \in 1..Len(available) :
                \/ Contains(response, available[i].name)
                \/ Contains(response, Without(available[i].name, "template"))})
  IN IF t = NoFile THEN None ELSE Selected(t, "Extracted from text response")

\* _llm_template_selection (68-150); "raise" stands for the exception of the
\* LLM call
_llm_template_selection(available, answer) ==
  CASE answer.kind = "raise" -> Raised
    [] answer.kind = "empty" -> None
    [] answer.kind = "json" ->
         LET t == FirstTemplate(available,
                    {i \in 1..Len(available) :
                       \/ available[i].name = answer.name
                       \/ Contains(available[i].name, answer.name)})
         IN IF t = NoFile THEN None ELSE Selected(t, "LLM intelligent selection")
    [] answer.kind = "text" -> _extract_template_from_text(answer.name, available)

\* TemplateSelectionNode.run (29-64)
TemplateSelectionNode_run(dir, answer) ==
  LET available == _get_available_templates(dir)
  IN IF available = <<>> THEN _get_fallback_template
     ELSE LET llm_result == _llm_template_selection(available, answer)
          IN IF llm_result \notin {Raised, None} THEN llm_result
             ELSE _get_fallback_template

DEFAULT_TEMPLATE == <<"Social Public Hotspot Event Analysis Report Template">>

\* ReportAgent._select_template (234-272); listing the template directory
\* can raise
_select_template(custom_template, dir, listdir_raises, answer) ==
  IF custom_template # <<>>
  THEN [template_name |-> <<"custom">>, template_content |-> custom_template,
        selection_reason |-> "User-specified custom template"]
  ELSE IF listdir_raises
       THEN [template_name |-> DEFAULT_TEMPLATE,
             template_content |-> <<"_get_fallback_template_content">>,
             selection_reason |-> "Template selection failed"]
       ELSE TemplateSelectionNode_run(dir, answer)

SelectTemplate(custom_template, dir, listdir_raises, answer) ==
  /\ template' = [done |-> TRUE, custom_template |-> custom_template, dir |-> dir,
                  listdir_raises |-> listdir_raises, answer |-> answer,
                  result |-> _select_template(custom_template, dir, listdir_raises, answer)]
  /\ UNCHANGED <<tailerVars, forumVars, startVars, gateVars, taskVars, researchVars, retry,
                 engineVars, published, search_step, forum_lock>>

NextTemplate ==
  \E custom_template \in {<<>>, <<"custom">>}, dir \in TemplateDirs, listdir_raises \in BOOLEAN,
     answer \in LLMAnswers :
    SelectTemplate(custom_template, dir, listdir_raises, answer)

SpecTemplate == Init /\ [][NextTemplate]_vars

\* C27: with no custom template, when templates exist and the LLM call fails
\* or names a template that is not available, the named default template is
\* selected; when no template exists, an empty template is selected
TemplateFallback ==
  template.done /\ template.custom_template = <<>> /\ ~template.listdir_raises
    => /\ (template.dir = <<>>) => (template.result.template_content = <<>>)
       /\ (/\ template.dir # <<>>
           /\ \/ template.answer.kind = "raise"
              \/ /\ template.answer.kind = "json"
                 /\ \A i \in 1..Len(template.dir) : template.dir[i] # template.answer.name)
            => (template.result.template_name = DEFAULT_TEMPLATE)

(***************************************************************************)
(* QueryEngine/agent.py 75-139, 241-261 and InsightEngine/agent.py 105-206, *)
(* 469-519: the parameters of the search tool.  A value of the node output  *)
(* is absent or a string; a string is the sequence of its parts, and a part *)
(* is a run of w digits with value v, a separator, or a word.               *)
(***************************************************************************)
Absent == [present |-> FALSE, text |-> <<>>]
Str(text) == [present |-> TRUE, text |-> text]
DigitRun(w, v) == [kind |-> "digits", w |-> w, v |-> v]
Sep(c) == [kind |-> c, w |-> 1, v |-> 0]
Word(c) == [kind |-> c, w |-> 0, v |-> 0]
DateText(sep, yw, y, mw, m, dw, d) ==
  <<DigitRun(yw, y), Sep(sep), DigitRun(mw, m), Sep(sep), DigitRun(dw, d)>>

\* the values of start_date and end_date in a node output
DateValues ==
  {Absent, Str(<<>>),
   Str(DateText("-", 4, 2024, 2, 1, 2, 15)), Str(DateText("-", 4, 2024, 2, 2, 2, 29)),
   Str(DateText("-", 4, 2023, 2, 2, 2, 29)), Str(DateText("-", 4, 2024, 2, 13, 2, 1)),
   Str(DateText("-", 4, 2024, 1, 1, 1, 5)), Str(DateText("/", 4, 2024, 2, 1, 2, 15)),
   Str(<<Word("yesterday")>>)}
PlatformValues == {Absent, Str(<<>>), Str(<<Word("weibo")>>)}

\* the truth value of a value of the node output
Truthy(x) == x.present /\ x.text # <<>>

DaysIn(y, m) ==
  IF m = 2 THEN (IF y % 4 = 0 /\ (y % 100 # 0 \/ y % 400 = 0) THEN 29 ELSE 28)
  ELSE IF m \in {4, 6, 9, 11} THEN 30 ELSE 31

\* _validate_date_format (75-98) without the test of the pattern
_validate_date_format_Any(date_str) == Truthy(date_str)

\* _validate_date_format (75-98): the pattern ^\d{4}-\d{2}-\d{2}$ and strptime
_validate_date_format(date_str) ==
  /\ Truthy(date_str)
  /\ LET t == date_str.text
     IN /\ Len(t) = 5
        /\ t[1].kind = "digits" /\ t[1].w = 4
        /\ t[2].kind = "-"
        /\ t[3].kind = "digits" /\ t[3].w = 2
        /\ t[4].kind = "-"
        /\ t[5].kind = "digits" /\ t[5].w = 2
        /\ t[1].v >= 1
        /\ t[3].v \in 1..12
        /\ t[5].v \in 1..DaysIn(t[1].v, t[3].v)

QueryTools == {"basic_search_news", "deep_search_news", "search_news_last_24_hours",
               "search_news_last_week", "search_images_for_news", "search_news_by_date"}
InsightTools == {"search_hot_content", "search_topic_globally", "search_topic_by_date",
                 "get_comments_for_topic", "search_topic_on_platform"}

NoArgs == [start_date |-> Absent, end_date |-> Absent, platform |-> Absent]

\* QueryEngine _initial_search_and_summary 241-261: the tool and the
\* parameters handed to execute_search_tool
QuerySearchArgs(output) ==
  IF output.search_tool = "search_news_by_date"
  THEN IF Truthy(output.start_date) /\ Truthy(output.end_date)
       THEN IF _validate_date_format(output.start_date)
               /\ _validate_date_format(output.end_date)
            THEN [tool |-> output.search_tool,
                  kwargs |-> [NoArgs EXCEPT !.start_date = output.start_date,
                                            !.end_date = output.end_date]]
            ELSE [tool |-> "basic_search_news", kwargs |-> NoArgs]
       ELSE [tool |-> "basic_search_news", kwargs |-> NoArgs]
  ELSE [tool |-> output.search_tool, kwargs |-> NoArgs]

\* QueryEngine execute_search_tool 100-139: the method of the search agency
\* that is called, with the parameters it is given
QueryExecute(args) ==
  IF args.tool = "search_news_by_date"
  THEN IF ~Truthy(args.kwargs.start_date) \/ ~Truthy(args.kwargs.end_date)
       THEN [tool |-> "none", kwargs |-> NoArgs, raised |-> TRUE]
       ELSE [tool |-> args.tool, kwargs |-> args.kwargs, raised |-> FALSE]
  ELSE IF args.tool \in QueryTools
  THEN [tool |-> args.tool, kwargs |-> NoArgs, raised |-> FALSE]
  ELSE [tool |-> "basic_search_news", kwargs |-> NoArgs, raised |-> FALSE]

\* InsightEngine _initial_search_and_summary 469-519
InsightSearchArgs(output) ==
  LET dated == output.search_tool \in {"search_topic_by_date", "search_topic_on_platform"}
      both == Truthy(output.start_date) /\ Truthy(output.end_date)
      valid == _validate_date_format(output.start_date)
                 /\ _validate_date_format(output.end_date)
      tool1 == IF dated /\ both /\ ~valid THEN "search_topic_globally"
               ELSE IF dated /\ ~both /\ output.search_tool = "search_topic_by_date"
               THEN "search_topic_globally"
               ELSE output.search_tool
      kwargs1 == IF dated /\ both /\ valid
                 THEN [NoArgs EXCEPT !.start_date = output.start_date,
                                     !.end_date = output.end_date]
                 ELSE NoArgs
  IN IF tool1 = "search_topic_on_platform"
     THEN IF Truthy(output.platform)
          THEN [tool |-> tool1, kwargs |-> [kwargs1 EXCEPT !.platform = output.platform]]
          ELSE [tool |-> "search_topic_globally", kwargs |-> kwargs1]
     ELSE [tool |-> tool1, kwargs |-> kwargs1]

\* InsightEngine execute_search_tool 105-206: a ValueError of a tool without
\* its parameters is caught in the loop over the keywords, and no method of
\* the search agency is called
InsightExecute(args) ==
  CASE args.tool = "search_topic_by_date" ->
         IF ~Truthy(args.kwargs.start_date) \/ ~Truthy(args.kwargs.end_date)
         THEN [tool |-> "none", kwargs |-> NoArgs, raised |-> FALSE]
         ELSE [tool |-> args.tool,
               kwargs |-> [args.kwargs EXCEPT !.platform = Absent], raised |-> FALSE]
    [] args.tool = "search_topic_on_platform" ->
         IF ~Truthy(args.kwargs.platform)
         THEN [tool |-> "none", kwargs |-> NoArgs, raised |-> FALSE]
         ELSE [tool |-> args.tool, kwargs |-> args.kwargs, raised |-> FALSE]
    [] args.tool \in {"search_hot_content", "get_comments_for_topic"} ->
         [tool |-> args.tool, kwargs |-> NoArgs, raised |-> FALSE]
    [] OTHER -> [tool |-> "search_topic_globally", kwargs |-> NoArgs, raised |-> FALSE]

NodeOutputs(tools) ==
  [search_tool : tools \cup {"unknown_tool"}, start_date : DateValues,
   end_date : DateValues, platform : PlatformValues]

\* the search step of an engine on a node output
SearchStep(engine, output) ==
  /\ search_step = NoSearchStep
  /\ search_step' =
       [engine |-> engine, output |-> output,
        executed |-> IF engine = "QUERY" THEN QueryExecute(QuerySearchArgs(output))
                     ELSE InsightExecute(InsightSearchArgs(output))]
  /\ UNCHANGED <<tailerVars, forumVars, startVars, gateVars, taskVars, researchVars, retry,
                 engineVars, published, template, forum_lock>>

NextTool ==
  \/ \E output \in NodeOutputs(QueryTools) : SearchStep("QUERY", output)
  \/ \E output \in NodeOutputs(InsightTools) : SearchStep("INSIGHT", output)

SpecTool == Init /\ [][NextTool]_vars

\* the YYYY-MM-DD strings of the calendar dates of the years of DateValues
CalendarDates ==
  UNION {{Str(DateText("-", 4, y, 2, m, 2, d)) : d \in 1..DaysIn(y, m)} :
           y \in 2023..2024, m \in 1..12}

IsDate(x) == x \in CalendarDates

GenericTool(engine) ==
  IF engine = "QUERY" THEN "basic_search_news" ELSE "search_topic_globally"

Mutation(w, op) ==
  [forum_lock EXCEPT
     !.unlocked = IF forum_lock.holder = w THEN @ ELSE @ \cup {<<w, op>>},
     !.interleaved = @ \/ forum_lock.holder \notin {"none", w}]

LockUnchanged ==
  UNCHANGED <<tailerVars, startVars, gateVars, taskVars, researchVars, retry, engineVars,
              published, template, search_step>>

\* a call of write_to_forum_log (108) or of clear_forum_log (79) begins
BeginWrite(w, op) ==
  /\ forum_lock.pc[w] = "idle"
  /\ forum_lock.ops < MaxLockOps
  /\ forum_lock' = [forum_lock EXCEPT !.pc[w] = IF op = "clear" THEN "unlink" ELSE "acquire",
                                      !.ops = @ + 1]
  /\ UNCHANGED forumVars
  /\ LockUnchanged

\* clear_forum_log 82-83: the file is removed
ClearUnlink(w) ==
  /\ forum_lock.pc[w] = "unlink"
  /\ forum_lock' = [IF forum_exists THEN Mutation(w, "unlink") ELSE forum_lock
                      EXCEPT !.pc[w] = "create"]
  /\ forum_exists' = FALSE
  /\ forum_log' = <<>>
  /\ LockUnchanged

\* clear_forum_log 88-89: the file is opened for writing, which empties it
ClearCreate(w) ==
  /\ forum_lock.pc[w] = "create"
  /\ forum_lock' = [Mutation(w, "truncate") EXCEPT !.pc[w] = "acquire"]
  /\ forum_exists' = TRUE
  /\ forum_log' = <<>>
  /\ LockUnchanged

\* write_to_forum_log 111: with self.write_lock
LockAcquire(w) ==
  /\ forum_lock.pc[w] = "acquire"
  /\ forum_lock.holder = "none"
  /\ forum_lock' = [forum_lock EXCEPT !.holder = w, !.pc[w] = "append"]
  /\ UNCHANGED forumVars
  /\ LockUnchanged

\* write_to_forum_log 112-120: the line is appended
LockedAppend(w) ==
  /\ forum_lock.pc[w] = "append"
  /\ forum_lock' = [Mutation(w, "append") EXCEPT !.pc[w] = "release"]
  /\ forum_exists' = TRUE
  /\ forum_log' = forum_log \o write_to_forum_log(<<START_MARK>>, "SYSTEM")
  /\ LockUnchanged

\* the end of the with block
LockRelease(w) ==
  /\ forum_lock.pc[w] = "release"
  /\ forum_lock' = [forum_lock EXCEPT !.holder = "none", !.pc[w] = "idle"]
  /\ UNCHANGED forumVars
  /\ LockUnchanged

NextLock ==
  \/ \E w \in Writers, op \in {"write", "clear"} : BeginWrite(w, op)
  \/ \E w \in Writers : ClearUnlink(w)
  \/ \E w \in Writers : ClearCreate(w)
  \/ \E w \in Writers : LockAcquire(w)
  \/ \E w \in Writers : LockedAppend(w)
  \/ \E w \in Writers : LockRelease(w)

SpecLock == Init /\ [][NextLock]_vars

\* C30: every mutation of forum.log, an append or a truncation, is made by a
\* writer that holds the write lock, and none is made while another writer
\* holds it
ForumWriteLock == forum_lock.unlocked = {} /\ ~forum_lock.interleaved

\* a truncation of clear_forum_log falls between the acquisition of the lock
\* by another writer and its append
TruncationInsideAppend ==
  /\ forum_lock.interleaved
  /\ \E w \in Writers : forum_lock.holder = w /\ forum_lock.pc[w] = "append"

(***************************************************************************)
(* The loop threads of the tailer under start_monitoring / stop_monitoring  *)
(***************************************************************************)
\* the loop threads that are alive and not blocked in a moderator call: they
\* run monitor_logs and write file_positions, is_searching and the buffer
RunningLoops == {t \in Threads : Alive(t) /\ t \notin InFlight}

\* C31: at most one tailer loop thread is alive and at work on the state of
\* the tailer at any time, for any sequence of start_monitoring and
\* stop_monitoring calls
OneTailerLoop == Cardinality(RunningLoops) <= 1

(***************************************************************************)
(* QueryEngine/agent.py 141-180, 398-447: the end of a research run         *)
(***************************************************************************)
\* agent.py 418-420: _generate_final_report stores the report in the state
\* and calls state.mark_completed() before it returns, so the state is
\* completed from the end of that step on, whatever _save_report does
state_is_completed ==
  \/ research_pc \in {"save", "done"}
  \/ research_pc = "failed" /\ research_error = "persistence"

\* agent.py 435-437: the report file of the run has been written
report_saved == research_pc = "done"

\* C32: whenever the state of a research run is completed, the report file
\* of that run has been written; a run whose save fails is never completed
CompletedAfterSave == state_is_completed => report_saved


(***************************************************************************)
(* Start lines that end with a closing brace: an engine that logs Cleaned  *)
(* output whose object holds a nested object, on one line or with the      *)
(* outer closing brace on a line of its own                                *)
(***************************************************************************)
NestedLines ==
  {Line("INFO", "summary", "single_nested"), Line("INFO", "summary", "open_nested"),
   Line("INFO", "summary", "close"), Line("NONE", "none", "close"),
   Line("INFO", "summary", "open"), Line("INFO", "summary", "kv_short")}

NextNested ==
  \/ \E line \in NestedLines \cup {MarkerLine} :
        /\ (appended = 0) <=> (line = MarkerLine)
        /\ EngineAppend("insight", line, MaxFilterAppend)
  \/ start_monitoring(TRUE)
  \/ \E t \in Threads : TailerStep(t)
  \/ \E t \in Threads : IdlePolls(t)

SpecNested == Init /\ [][NextNested]_vars

\* monitor.py 263: the JSON part of the line has as many { as }
BracesBalance(line) ==
  CountTok(BodyInfo(line.body).json, "{") = CountTok(BodyInfo(line.body).json, "}")

\* line i of batch b is a target start line that ends with a closing brace
EndsWithBrace(b, i) ==
  /\ b.lines[i].level = "INFO"
  /\ is_target_log_line(b.lines[i])
  /\ is_json_start_line(b.lines[i])
  /\ BodyInfo(b.lines[i].body).endbrace

\* C33: a target start line is parsed immediately only if it ends with a
\* closing brace and its brace counts balance; if it ends with a closing brace
\* but its braces do not balance, capture stays open with the line in the
\* buffer, and the terminator line that follows it is appended and parsed
\* together with it into one message.
StartLineParse ==
  \A i \in 1..Len(last_batch.lines) :
    (last_batch.searching /\ EndsWithBrace(last_batch, i)) =>
      IF BracesBalance(last_batch.lines[i])
      THEN /\ last_batch.yields[i] = 1
           /\ i = Len(last_batch.lines) => ~last_batch.exit.cap
      ELSE /\ last_batch.yields[i] = 0
           /\ i = Len(last_batch.lines)
                => /\ last_batch.exit.cap
                   /\ last_batch.exit.buf = <<last_batch.lines[i]>>
           /\ (i < Len(last_batch.lines) /\ is_end_marker(last_batch.lines[i + 1]))
                => OutsOf(last_batch, i, i + 1)
                     = <<_clean_content_tags(format_json_content(
                           json_loads(JoinJson(SubSeq(last_batch.lines, i, i + 1)))))>>

\* the utterances handed to the last call of generate_host_speech
LastInvocation == invocations[Len(invocations)]

\* C34: when a moderator synthesis fails, no HOST line is written and the
\* buffer is left as it is, the five utterances of the failed attempt first;
\* the buffer keeps accumulating, nothing but a HOST line written or the end
\* of the session takes an utterance out of it, and the next captured agent
\* message is appended behind the others and triggers a new synthesis attempt
\* on the five oldest utterances.
FailedSynthesisRetry ==
  [][/\ (\E t \in Threads : HostReturn(t, <<>>))
          => /\ forum_log' = forum_log
             /\ agent_speeches_buffer' = agent_speeches_buffer
             /\ SubSeq(agent_speeches_buffer', 1, HOST_BATCH) = LastInvocation
             /\ ~is_host_generating'
     /\ session_msgs' # session_msgs
          => /\ agent_speeches_buffer'
                  = Append(agent_speeches_buffer, session_msgs'[Len(session_msgs')])
             /\ (~is_host_generating /\ Len(agent_speeches_buffer) >= HOST_BATCH)
                  => /\ is_host_generating'
                     /\ invocations'
                          = Append(invocations, SubSeq(agent_speeches_buffer, 1, HOST_BATCH))
     /\ (agent_speeches_buffer' # agent_speeches_buffer /\ session_msgs' = session_msgs)
          => \/ /\ agent_speeches_buffer' = Remaining(agent_speeches_buffer)
                /\ \E host_speech \in HostSpeeches :
                     forum_log' = forum_log \o write_to_forum_log(host_speech, "HOST")
             \/ agent_speeches_buffer' = <<>> /\ ~is_searching']_vars

\* a second attempt in flight on the five utterances of the failed first one,
\* a sixth utterance behind them and no HOST line in forum.log
FailedSynthesisRetryWitness ==
  /\ synth_failed
  /\ is_host_generating
  /\ Len(invocations) = 2
  /\ invocations[1] = invocations[2]
  /\ Len(agent_speeches_buffer) = HOST_BATCH + 1
  /\ SubSeq(agent_speeches_buffer, 1, HOST_BATCH) = invocations[1]
  /\ \A i \in 1..Len(forum_log) : forum_log[i] # "HOST"

\* the report engine is initialized once, every engine publishes one report
\* after the baseline, and one client asks for reports one after the other
NextBaseline ==
  \/ \E ok \in BOOLEAN : initialize_report_engine(ok)
  \/ \E a \in AppSet : report_agent /\ md_count[a] = 0 /\ WriteReport(a)
  \/ Tick
  \/ GenerateCheck("g1")
  \/ GenerateSpawn("g1")
  \/ \E o \in TaskObjs : WorkerStart(o)
  \/ \E o \in TaskObjs : WorkerCheck(o)
  \/ \E o \in TaskObjs : WorkerLoad(o)
  \/ \E o \in TaskObjs, outcome \in GenerateOutcomes : WorkerGenerate(o, outcome)
  \/ \E o \in TaskObjs : WorkerResult(o)
  \/ \E o \in TaskObjs : WorkerCleanup(o)

SpecBaseline == Init /\ [][NextBaseline]_vars

\* C35: Check and report generation never modify the baseline, only the
\* initialization does: as long as no report file, directory or forum log
\* changes, Check keeps its answer, and a GenerateReport request that finds
\* Check ready is accepted, with no new engine artifact since the last report.
BaselineFrame ==
  [][/\ baseline_data' # baseline_data => (~report_agent /\ report_agent')
     /\ (/\ report_agent
         /\ md_count' = md_count
         /\ dir_exists' = dir_exists
         /\ forum_exists' = forum_exists)
          => (check_engines_ready' <=> check_engines_ready)
     /\ \A c \in Callers :
          (gen_pc[c] = "checked" /\ gen_pc'[c] = "idle" /\ check_engines_ready)
            => /\ gen_reply'[c] = "started"
               /\ created' = created + 1
               /\ current_task' = created']_vars

\* a second task accepted after the first one completed, on the one report
\* each engine wrote after the baseline
BaselineFrameWitness ==
  /\ created = 2
  /\ task[1].status = "completed"
  /\ 1 \in report_files
  /\ current_task = 2
  /\ \E c \in Callers : gen_reply[c] = "started"
  /\ \A a \in AppSet : md_count[a] = 1 /\ baseline_data[a] = 0

\* one client asks for reports one after the other while forum.log may be
\* removed and created again; no task is cancelled
NextReject ==
  \/ \E ok \in BOOLEAN : initialize_report_engine(ok)
  \/ \E a \in AppSet : report_agent /\ md_count[a] = 0 /\ WriteReport(a)
  \/ RemoveForumLog
  \/ CreateForumLog
  \/ Tick
  \/ GenerateCheck("g1")
  \/ GenerateSpawn("g1")
  \/ \E o \in TaskObjs : WorkerStart(o)
  \/ \E o \in TaskObjs : WorkerCheck(o)
  \/ \E o \in TaskObjs : WorkerLoad(o)
  \/ \E o \in TaskObjs, outcome \in GenerateOutcomes : WorkerGenerate(o, outcome)
  \/ \E o \in TaskObjs : WorkerResult(o)
  \/ \E o \in TaskObjs : WorkerCleanup(o)

SpecReject == Init /\ [][NextReject]_vars

\* C36: a GenerateReport request that is rejected as not_initialized or
\* not_ready leaves the task record unchanged: when the last request of the
\* client was rejected so, the task completed before it is still the current
\* task and its result is retrievable.
RejectKeepsTask ==
  (/\ gen_pc["g1"] = "idle"
   /\ gen_reply["g1"] \in {"not_initialized", "not_ready"}
   /\ created > 0
   /\ task[created].status = "completed")
    => /\ current_task = created
       /\ get_result(task[created].task_id).code = 200
       /\ get_result(task[created].task_id).html = task[created].html_content

(***************************************************************************)
(* Moderator guidance: a summary node reads the latest HOST speech of      *)
(* forum.log before it logs its line (summary_node.py 80-103).  An engine  *)
(* makes two research runs one after the other: the marker, five summaries *)
(* and the marker of the second run; the session of the first run may end  *)
(* by inactivity in between.                                               *)
(***************************************************************************)
\* the indices of the lines of forum.log that get_latest_host_speech matches
HostLineIndices ==
  {i \in 1..Len(ForumLines) :
     MatchLine(ForumLines[i]) # <<>> /\ MatchLine(ForumLines[i])[1] = "HOST"}

\* forum_reader.py 11-51; <<>> stands for None
get_latest_host_speech ==
  IF ~forum_exists \/ HostLineIndices = {} THEN <<>>
  ELSE LET last == CHOOSE i \in HostLineIndices : \A j \in HostLineIndices : j <= i
       IN Strip(Unescape(MatchLine(ForumLines[last])[2]))

TwoRuns == <<MarkerLine, SingleLine, Line("INFO", "summary", "single_x"), SingleLine,
             Line("INFO", "summary", "single_x"), SingleLine>>

NextGuidance ==
  \/ EngineRun("insight", TwoRuns, MaxGuidanceAppend)
  \/ start_monitoring(TRUE)
  \/ \E t \in Threads : TailerStep(t)
  \/ \E t \in Threads : IdlePolls(t)
  \/ \E t \in Threads, host_speech \in HostOutcomes : HostReturn(t, host_speech)

SpecGuidance == Init /\ [][NextGuidance]_vars

\* a forum session is open: forum.log starts with the marker of the session
\* and holds no end marker
SessionOpen ==
  /\ is_searching
  /\ ForumLines # <<>>
  /\ ForumLines[1] = StartLine
  /\ \A i \in 1..Len(ForumLines) : ForumLines[i] # EndLine

\* C37: a summary node only receives moderator guidance of the current forum
\* session: the first summary of a run, which logs the line that starts the
\* session of the run, receives none, and a later summary receives a HOST
\* speech only from forum.log of the open session.
GuidanceOfSession ==
  [][appended' = appended + 1 =>
       (get_latest_host_speech # <<>> =>
          /\ SessionOpen
          /\ engine_log'["insight"].rest[Len(engine_log'["insight"].rest)] # MarkerLine)]_vars

\* the capture state of one engine is consistent
CaptureState(st) ==
  /\ ~(st.err /\ st.cap)
  /\ st.buf # <<>> <=> st.cap
  /\ st.cap => (is_target_log_line(st.buf[1]) /\ is_json_start_line(st.buf[1]))

\* the capture state after the first k lines of the last batch
AfterLines(k) ==
  process_lines_for_json(SubSeq(last_batch.lines, 1, k), last_batch.entry).st

\* C38: after the tailer has processed any line, for every engine:
\* in_error_block and capturing_json are never both true, and json_buffer is
\* non-empty exactly when capturing_json is true, its first element being the
\* Cleaned output start line.
CaptureConsistent ==
  /\ \A a \in AppSet : CaptureState(capture[a])
  /\ \A k \in 0..Len(last_batch.lines) : CaptureState(AfterLines(k))

\* a batch in which an ERROR line ends a capture that holds the start line and
\* a continuation line
CaptureConsistentWitness ==
  \E k \in 1..Len(last_batch.lines) :
    /\ last_batch.searching
    /\ AfterLines(k - 1).cap
    /\ Len(AfterLines(k - 1).buf) = 2
    /\ last_batch.lines[k].level = "ERROR"
    /\ AfterLines(k).err
    /\ ~AfterLines(k).cap
    /\ AfterLines(k).buf = <<>>
=============================================================================
